---- MODULE Spec2Model ----
(***************************************************************************)
(* Functional-unit back-end of the SIMT core simulator (sim/simx):         *)
(* AluUnit, FpuUnit, LsuUnit, SfuUnit (func_unit.cpp) and the arbitration  *)
(* fabric HashTable, Mux, Switch (types.h).                                *)
(*                                                                         *)
(* One state machine per unit.  Every unit is ticked once per cycle by the *)
(* platform; a tick action below is the whole tick() handler followed by   *)
(* the platform's clock advance for the unit's ports.  The front-end, the  *)
(* write-back collector, the memory side and the coprocessors are the      *)
(* environment and act between ticks.                                      *)
(***************************************************************************)
EXTENDS Integers, Sequences, FiniteSets, TLC

VARIABLES
  \* ---- shared by all units
  fatal,        \* the process has aborted (std::abort / failed assert)
  uuid_next,    \* next trace uuid the front-end hands out
  core_calls,   \* Core callbacks made by the most recent tick, in call order
  popped,       \* [trace, iw]: traces the most recent tick popped from input lane iw
  since_pop,    \* uuid -> cycles elapsed since the trace was popped, until visible
  \* ---- AluUnit
  alu_Inputs, alu_Outputs,
  \* ---- FpuUnit
  fpu_Inputs, fpu_Outputs,
  \* ---- LsuUnit
  lsu_Inputs, lsu_Outputs,
  states,         \* states_: per bank [pending_rd_reqs, fence_lock, fence_trace]
  pending_loads,  \* pending_loads_
  perf_stats,     \* core_->perf_stats_: [loads, stores]
  lsu_ReqIn,      \* core_->lsu_demux_.at(b)->ReqIn
  lsu_RspIn,      \* core_->lsu_demux_.at(b)->RspIn
  mem,            \* memory side: per bank, the load requests not yet fully answered
  lsu_log,        \* what LsuUnit::tick did, when it was the last step
  retired,        \* uuids the write-back collector consumed from an LSU output
  no_overlap,     \* no response packet so far repeated a lane an earlier one carried
  wait_for,       \* uuid -> loads that were outstanding when a fence ahead of it entered
  \* ---- SfuUnit
  sfu_Inputs, sfu_Outputs,
  cop_Input,      \* Input port of each raster / texture / OM unit
  cop_Output,     \* Output port of each raster / texture / OM unit
  sfu_pushed,     \* [trace, to, delay]: the pushes of SfuUnit::tick, when it was the last step
  peer_Inputs, peer_Outputs,  \* the ports of the SFU of a second core on the same units
  ticked,         \* the cores whose SFU has ticked in the current cycle
  \* ---- Mux
  mux,            \* the Mux object: its members and its ports
  mux_backlogged, \* every input was non-empty at every tick so far
  mux_grants,     \* per output, the inputs granted by the latest ticks, while backlogged
  \* ---- Switch
  sw,             \* the Switch object: its members and its ports
  sw_backlogged,  \* every request input was non-empty at every tick so far
  sw_grants,      \* per output, the inputs granted by the latest ticks, while backlogged
  \* ---- get_addr_type
  classified      \* [cfg, addr, type]: the build's constants, the latest call and its result

sharedVars == <<fatal, uuid_next, core_calls, popped, since_pop>>
aluVars    == <<alu_Inputs, alu_Outputs>>
fpuVars    == <<fpu_Inputs, fpu_Outputs>>
lsuVars    == <<lsu_Inputs, lsu_Outputs, states, pending_loads, perf_stats,
                lsu_ReqIn, lsu_RspIn, mem, lsu_log, retired, no_overlap, wait_for>>
muxVars    == <<mux, mux_backlogged, mux_grants>>
swVars     == <<sw, sw_backlogged, sw_grants>>
sfuVars    == <<sfu_Inputs, sfu_Outputs, cop_Input, cop_Output, sfu_pushed,
                peer_Inputs, peer_Outputs, ticked>>
addrVars   == <<classified>>
vars       == <<sharedVars, aluVars, fpuVars, lsuVars, sfuVars, muxVars, swVars, addrVars>>

\* what a unit's actions leave alone
notAlu == <<fpuVars, lsuVars, sfuVars, muxVars, swVars, addrVars>>
notFpu == <<aluVars, lsuVars, sfuVars, muxVars, swVars, addrVars>>
notLsu == <<aluVars, fpuVars, sfuVars, muxVars, swVars, core_calls, popped, since_pop,
            addrVars>>
notSfu == <<aluVars, fpuVars, lsuVars, muxVars, swVars, addrVars>>
notMux == <<sharedVars, aluVars, fpuVars, lsuVars, sfuVars, swVars, addrVars>>
notSw  == <<uuid_next, core_calls, popped, since_pop, aluVars, fpuVars, lsuVars, sfuVars,
            muxVars, addrVars>>
notAddr == <<sharedVars, aluVars, fpuVars, lsuVars, sfuVars, muxVars, swVars>>

----------------------------------------------------------------------------
\* Bounds of the model

\* traces the front-end issues to the ALU / FPU in one run
MaxFuTraces == 2

\* traces the front-end issues to the LSU in one run
MaxLsuTraces == 3

\* traces the front-end issues to the LSU in a run followed to its end
MaxLiveTraces == 2

\* traces the front-end issues to the SFU in one run
MaxSfuTraces == 2

\* traces the front-ends of the two cores issue to the shared units in one run
MaxCopTraces == 2

\* items waiting on one input of a Mux
MaxMuxQueue == 2

\* packets inside a Switch at a time
MaxSwInFlight == 3

\* requests waiting on one input of a Switch
MaxSwQueue == 1

----------------------------------------------------------------------------
\* Configuration (VX_config.h) and the constants func_unit.cpp uses

ISSUE_WIDTH    == 2
NUM_WARPS      == 2
XLEN           == 32
LATENCY_IMUL   == 3
LATENCY_FMA    == 4
LATENCY_FDIV   == 15
LATENCY_FSQRT  == 10
LATENCY_FCVT   == 5
NUM_THREADS    == 2
NUM_LSU_LANES  == 2
NUM_LSU_BLOCKS == 1
\* capacity of a bank's pending_rd_reqs table
LSUQ_SIZE      == 2
\* width of MemReq::tag
TAG_BITS       == 32

\* the uuids of a run
Uuids == 1 .. (IF MaxFuTraces > MaxLsuTraces THEN MaxFuTraces ELSE MaxLsuTraces)

Lanes == 0 .. (ISSUE_WIDTH - 1)
Warps == 0 .. (NUM_WARPS - 1)

Banks == 0 .. (NUM_LSU_BLOCKS - 1)
LsuLanes == 0 .. (NUM_LSU_LANES - 1)
Threads == 0 .. (NUM_THREADS - 1)

\* partial issues of a warp
Pids == 0 .. ((NUM_THREADS \div NUM_LSU_LANES) - 1)

\* the thread masks of the loads and stores the front-end issues here: no
\* thread, one thread, every thread (a fence carries every thread)
TMasks == {{}, {NUM_THREADS - 1}, Threads}

\* enum class AluType / FpuType, and LsuType
AluTypes == {"ARITH", "BRANCH", "SYSCALL", "IMUL", "IDIV"}
FpuTypes == {"FNCP", "FMA", "FDIV", "FSQRT", "FCVT"}
LsuTypes == {"LOAD", "STORE", "FENCE"}

\* (arg1, arg2) of the WSPAWN and BAR traces
SfuArgs == {<<0, 0>>, <<1, 2>>}

\* no trace (a null pointer, or a value no later read depends on)
NoTrace == [uuid |-> 0]

\* the result of a switch that reached its default arm
NoDelay == 0

----------------------------------------------------------------------------
\* SimPort: a FIFO whose push(pkt, delay) makes pkt visible `delay` cycles
\* later.  A port is the sequence of its packets in arrival order; `delay`
\* is the number of cycles until the packet is visible (0: visible now).

SimPort_empty(port) == port = <<>> \/ Head(port).delay > 0

SimPort_front(port) == Head(port).pkt

SimPort_pop(port) == Tail(port)

RECURSIVE InsertAt(_, _, _)
InsertAt(port, e, k) ==
  IF k > Len(port) \/ port[k].delay > e.delay
  THEN SubSeq(port, 1, k - 1) \o <<e>> \o SubSeq(port, k, Len(port))
  ELSE InsertAt(port, e, k + 1)

\* arrival order: by arrival cycle, ties in push order
SimPort_push(port, pkt, delay) ==
  InsertAt(port, [pkt |-> pkt, delay |-> delay], 1)

\* one cycle later
SimPort_advance(port) ==
  [k \in 1 .. Len(port) |->
     [port[k] EXCEPT !.delay = IF @ > 0 THEN @ - 1 ELSE 0]]

AdvanceAll(ports) == [i \in DOMAIN ports |-> SimPort_advance(ports[i])]

\* sum of the function f over the set S
RECURSIVE SumOver(_, _)
SumOver(S, f) ==
  IF S = {} THEN 0
  ELSE LET x == CHOOSE y \in S : TRUE IN f[x] + SumOver(S \ {x}, f)

\* an entry that is visible now
Now(pkt) == [pkt |-> pkt, delay |-> 0]

\* the packets of a port, visible or not
PortPkts(port) == {port[k].pkt : k \in 1 .. Len(port)}

\* uuids whose packet is in one of `ports` and not yet visible
InFlight(ports) ==
  UNION {{ports[i][k].pkt.uuid : k \in {n \in 1 .. Len(ports[i]) : ports[i][n].delay > 0}}
           : i \in DOMAIN ports}

EmptyPorts == [iw \in Lanes |-> <<>>]

\* a Core callback as recorded in core_calls
Resume(wid) == [fn |-> "resume", wid |-> wid]

----------------------------------------------------------------------------
\* AluUnit

\* the divider's latency without the two pipeline stages
AluDelay_short(alu_type) ==
  CASE alu_type \in {"ARITH", "BRANCH", "SYSCALL"} -> 2 + 2
    [] alu_type = "IMUL" -> LATENCY_IMUL + 2
    [] alu_type = "IDIV" -> XLEN
    [] OTHER -> NoDelay

\* the delay of the output push for each arm of the switch on alu_type
AluDelay(alu_type) ==
  CASE alu_type \in {"ARITH", "BRANCH", "SYSCALL"} -> 2 + 2
    [] alu_type = "IMUL" -> LATENCY_IMUL + 2
    [] alu_type = "IDIV" -> XLEN + 2
    [] OTHER -> NoDelay

\* a resume for every trace that ends its instruction
AluResume_eop(trace) == trace.eop

\* the condition of the core_->resume call
AluResume(trace) == trace.eop /\ trace.fetch_stall

\* the body of the loop of AluUnit::tick for lane iw, on
\* s = [Inputs, Outputs, calls, popped, fatal]
AluLane(s, iw) ==
  IF SimPort_empty(s.Inputs[iw]) THEN s
  ELSE LET trace == SimPort_front(s.Inputs[iw])
           delay == AluDelay(trace.alu_type)
       IN IF delay = NoDelay THEN [s EXCEPT !.fatal = TRUE]
          ELSE [s EXCEPT
                 !.Outputs[iw] = SimPort_push(@, trace, delay),
                 !.calls = IF AluResume(trace)
                           THEN Append(@, Resume(trace.wid)) ELSE @,
                 !.popped = Append(@, [trace |-> trace, iw |-> iw]),
                 !.Inputs[iw] = SimPort_pop(@)]

RECURSIVE AluLanes(_, _)
AluLanes(s, iw) ==
  IF iw = ISSUE_WIDTH \/ s.fatal THEN s
  ELSE AluLanes(AluLane(s, iw), iw + 1)

\* ghost clock of the traces a tick popped and of those still in flight
Stamp(ages, s, outs) ==
  [u \in DOMAIN ages |->
     IF \E k \in 1 .. Len(s.popped) : s.popped[k].trace.uuid = u THEN 1
     ELSE IF u \in InFlight(outs) THEN ages[u] + 1
     ELSE ages[u]]

AluUnit_tick ==
  /\ ~fatal
  /\ LET s == AluLanes([Inputs |-> alu_Inputs, Outputs |-> alu_Outputs,
                        calls |-> <<>>, popped |-> <<>>, fatal |-> FALSE], 0)
     IN IF s.fatal
        THEN /\ fatal' = TRUE
             /\ UNCHANGED <<uuid_next, core_calls, popped, since_pop, aluVars>>
        ELSE /\ alu_Inputs' = AdvanceAll(s.Inputs)
             /\ alu_Outputs' = AdvanceAll(s.Outputs)
             /\ core_calls' = s.calls
             /\ popped' = s.popped
             /\ since_pop' = Stamp(since_pop, s, alu_Outputs)
             /\ UNCHANGED <<fatal, uuid_next>>
  /\ UNCHANGED notAlu

\* the front-end dispatches an ALU trace to lane wid mod ISSUE_WIDTH
AluIssue ==
  /\ ~fatal
  /\ uuid_next <= MaxFuTraces
  /\ \E wid \in Warps, ty \in AluTypes, eop \in BOOLEAN, fs \in BOOLEAN :
       alu_Inputs' = [alu_Inputs EXCEPT ![wid % ISSUE_WIDTH] =
          Append(@, [pkt |-> [uuid |-> uuid_next, wid |-> wid, alu_type |-> ty,
                              eop |-> eop, fetch_stall |-> fs],
                     delay |-> 0])]
  /\ uuid_next' = uuid_next + 1
  /\ UNCHANGED <<fatal, core_calls, popped, since_pop, alu_Outputs, notAlu>>

\* the write-back collector consumes the visible head of an output lane
AluCommit ==
  /\ ~fatal
  /\ \E iw \in Lanes :
       /\ ~SimPort_empty(alu_Outputs[iw])
       /\ alu_Outputs' = [alu_Outputs EXCEPT ![iw] = SimPort_pop(@)]
       /\ since_pop' = [since_pop EXCEPT ![SimPort_front(alu_Outputs[iw]).uuid] = 0]
  /\ UNCHANGED <<fatal, uuid_next, core_calls, popped, alu_Inputs, notAlu>>

----------------------------------------------------------------------------
\* FpuUnit

\* FDIV and FSQRT with each other's latency
FpuDelay_swapped(fpu_type) ==
  CASE fpu_type = "FNCP"  -> 2 + 2
    [] fpu_type = "FMA"   -> LATENCY_FMA + 2
    [] fpu_type = "FDIV"  -> LATENCY_FSQRT + 2
    [] fpu_type = "FSQRT" -> LATENCY_FDIV + 2
    [] fpu_type = "FCVT"  -> LATENCY_FCVT + 2
    [] OTHER -> NoDelay

\* the delay of the output push for each arm of the switch on fpu_type
FpuDelay(fpu_type) ==
  CASE fpu_type = "FNCP"  -> 2 + 2
    [] fpu_type = "FMA"   -> LATENCY_FMA + 2
    [] fpu_type = "FDIV"  -> LATENCY_FDIV + 2
    [] fpu_type = "FSQRT" -> LATENCY_FSQRT + 2
    [] fpu_type = "FCVT"  -> LATENCY_FCVT + 2
    [] OTHER -> NoDelay

\* the body of the loop of FpuUnit::tick for lane iw
FpuLane(s, iw) ==
  IF SimPort_empty(s.Inputs[iw]) THEN s
  ELSE LET trace == SimPort_front(s.Inputs[iw])
           delay == FpuDelay(trace.fpu_type)
       IN IF delay = NoDelay THEN [s EXCEPT !.fatal = TRUE]
          ELSE [s EXCEPT
                 !.Outputs[iw] = SimPort_push(@, trace, delay),
                 !.popped = Append(@, [trace |-> trace, iw |-> iw]),
                 !.Inputs[iw] = SimPort_pop(@)]

RECURSIVE FpuLanes(_, _)
FpuLanes(s, iw) ==
  IF iw = ISSUE_WIDTH \/ s.fatal THEN s
  ELSE FpuLanes(FpuLane(s, iw), iw + 1)

FpuUnit_tick ==
  /\ ~fatal
  /\ LET s == FpuLanes([Inputs |-> fpu_Inputs, Outputs |-> fpu_Outputs,
                        calls |-> <<>>, popped |-> <<>>, fatal |-> FALSE], 0)
     IN IF s.fatal
        THEN /\ fatal' = TRUE
             /\ UNCHANGED <<uuid_next, core_calls, popped, since_pop, fpuVars>>
        ELSE /\ fpu_Inputs' = AdvanceAll(s.Inputs)
             /\ fpu_Outputs' = AdvanceAll(s.Outputs)
             /\ core_calls' = s.calls
             /\ popped' = s.popped
             /\ since_pop' = Stamp(since_pop, s, fpu_Outputs)
             /\ UNCHANGED <<fatal, uuid_next>>
  /\ UNCHANGED notFpu

\* the front-end dispatches an FPU trace to lane wid mod ISSUE_WIDTH
FpuIssue ==
  /\ ~fatal
  /\ uuid_next <= MaxFuTraces
  /\ \E wid \in Warps, ty \in FpuTypes, eop \in BOOLEAN, fs \in BOOLEAN :
       fpu_Inputs' = [fpu_Inputs EXCEPT ![wid % ISSUE_WIDTH] =
          Append(@, [pkt |-> [uuid |-> uuid_next, wid |-> wid, fpu_type |-> ty,
                              eop |-> eop, fetch_stall |-> fs],
                     delay |-> 0])]
  /\ uuid_next' = uuid_next + 1
  /\ UNCHANGED <<fatal, core_calls, popped, since_pop, fpu_Outputs, notFpu>>

\* the write-back collector consumes the visible head of an output lane
FpuCommit ==
  /\ ~fatal
  /\ \E iw \in Lanes :
       /\ ~SimPort_empty(fpu_Outputs[iw])
       /\ fpu_Outputs' = [fpu_Outputs EXCEPT ![iw] = SimPort_pop(@)]
       /\ since_pop' = [since_pop EXCEPT ![SimPort_front(fpu_Outputs[iw]).uuid] = 0]
  /\ UNCHANGED <<fatal, uuid_next, core_calls, popped, fpu_Inputs, notFpu>>

----------------------------------------------------------------------------
\* HashTable<T>: a table of `capacity` slots (first: allocated, second: value)

NoEntry == [trace |-> NoTrace, mask |-> {}]

HashTable(capacity) ==
  [entries |-> [i \in 0 .. (capacity - 1) |-> [first |-> FALSE, second |-> NoEntry]],
   size_   |-> 0]

HashTable_empty(t) == 0 = t.size_

HashTable_full_early(t) == t.size_ + 1 >= Cardinality(DOMAIN t.entries)

HashTable_full(t) == t.size_ = Cardinality(DOMAIN t.entries)

HashTable_size(t) == t.size_

\* entries_.at(index) throws outside the table
HashTable_contains(t, index) == index \in DOMAIN t.entries /\ t.entries[index].first

\* at(index), when its assertion holds
HashTable_at(t, index) == t.entries[index].second

\* a scan that takes the last free slot
FirstFree_last(t) ==
  CHOOSE i \in DOMAIN t.entries :
    /\ ~t.entries[i].first
    /\ \A j \in DOMAIN t.entries : ~t.entries[j].first => j <= i

\* the slot allocate() takes: the first one that is not allocated
FirstFree(t) ==
  CHOOSE i \in DOMAIN t.entries :
    /\ ~t.entries[i].first
    /\ \A j \in DOMAIN t.entries : ~t.entries[j].first => i <= j

\* allocate(value), when a slot is free: [table, index]
HashTable_allocate(t, value) ==
  LET i == FirstFree(t)
  IN [table |-> [t EXCEPT !.entries[i] = [first |-> TRUE, second |-> value],
                          !.size_ = @ + 1],
      index |-> i]

HashTable_release_keep(t, index) == [t EXCEPT !.size_ = @ - 1]

\* release(index), when its assertion holds.  The slot's value is dead after
\* the release (at() asserts `first`, allocate() overwrites it).
HashTable_release(t, index) ==
  [t EXCEPT !.entries[index] = [first |-> FALSE, second |-> NoEntry],
            !.size_ = @ - 1]

----------------------------------------------------------------------------
\* LsuUnit

\* lsu_state_t after clear()
lsu_state_t ==
  [pending_rd_reqs |-> HashTable(LSUQ_SIZE),
   fence_lock      |-> FALSE,
   fence_trace     |-> NoTrace]

\* the record of one tick
EmptyLog ==
  [absorbed |-> <<>>,   \* responses taken: [b, rsp, trace, before]
   released |-> <<>>,   \* pending slots released: [b, tag]
   pushed   |-> <<>>,   \* output pushes: [trace, iw, delay, from]
   popped   |-> <<>>,   \* input pops: [trace, iw]
   reqs     |-> <<>>,   \* requests sent: [b, iw, req, delay]
   allocs   |-> <<>>,   \* pending slots allocated: [b, tag, trace]
   stalled  |-> <<>>]   \* lanes left alone: [iw, why]

\* the uuids of the loads a bank's pending table holds
PendingUuids(t) ==
  {t.entries[i].second.trace.uuid : i \in {j \in DOMAIN t.entries : t.entries[j].first}}

\* lanes of the request: lane i is active iff tmask[pid * NUM_LSU_LANES + i]
ReqMask_all(trace) == LsuLanes

ReqMask(trace) ==
  {i \in LsuLanes : (trace.pid * NUM_LSU_LANES + i) \in trace.tmask}

\* a load left the pending table: nothing waits for it any more
Forget(w, uuid) ==
  [behind  |-> [u \in DOMAIN w.behind |-> w.behind[u] \ {uuid}],
   entered |-> [b \in DOMAIN w.entered |-> w.entered[b] \ {uuid}]]

\* a fence entered bank b: what is still on the bank's input lanes is behind it
Fenced(w, b, loads, ins) ==
  [behind  |-> [u \in DOMAIN w.behind |->
                  IF \E iw \in Lanes : iw % NUM_LSU_BLOCKS = b
                                       /\ \E k \in 1 .. Len(ins[iw]) : ins[iw][k].pkt.uuid = u
                  THEN w.behind[u] \cup loads ELSE w.behind[u]],
   entered |-> [w.entered EXCEPT ![b] = @ \cup loads]]

\* "handle memory responses": the body of the loop for bank b
LsuRsp(s, b) ==
  IF SimPort_empty(s.RspIn[b]) THEN s
  ELSE
    LET lsu_rsp == SimPort_front(s.RspIn[b])
        table   == s.states[b].pending_rd_reqs
    IN IF ~HashTable_contains(table, lsu_rsp.tag)
       THEN [s EXCEPT !.fatal = TRUE]          \* at(): assert(entry.first)
       ELSE
         LET entry == HashTable_at(table, lsu_rsp.tag)
             trace == entry.trace
             mask  == entry.mask \ lsu_rsp.mask
             iw    == trace.wid % ISSUE_WIDTH
             done  == mask = {}
         IN IF entry.mask = {}
            THEN [s EXCEPT !.fatal = TRUE]     \* assert(!entry.mask.none())
            ELSE [s EXCEPT
                   !.states[b].pending_rd_reqs =
                      IF done THEN HashTable_release(table, lsu_rsp.tag)
                      ELSE [table EXCEPT !.entries[lsu_rsp.tag].second.mask = mask],
                   !.Outputs[iw] = IF done THEN SimPort_push(@, trace, 1) ELSE @,
                   !.pending_loads = @ - Cardinality(lsu_rsp.mask),
                   !.RspIn[b] = SimPort_pop(@),
                   !.wait_for = IF done THEN Forget(@, trace.uuid) ELSE @,
                   !.log.absorbed = Append(@, [b |-> b, rsp |-> lsu_rsp, trace |-> trace,
                                               before |-> entry.mask]),
                   !.log.released = IF done THEN Append(@, [b |-> b, tag |-> lsu_rsp.tag])
                                    ELSE @,
                   !.log.pushed = IF done
                                  THEN Append(@, [trace |-> trace, iw |-> iw, delay |-> 1,
                                                  from |-> "rsp"])
                                  ELSE @]

\* a locked bank waits for all its pending loads
FenceWaits_never(state) == FALSE

FenceWaits(state) == ~HashTable_empty(state.pending_rd_reqs)

\* "handle LSU requests", first part: the fence lock of the lane's bank.
\* Gives [s, skip]: skip is the `continue` of a locked bank.
LsuFenceLock(s, iw) ==
  LET block_idx == iw % NUM_LSU_BLOCKS
      state     == s.states[block_idx]
  IN IF ~state.fence_lock THEN [s |-> s, skip |-> FALSE]
     ELSE IF FenceWaits(state)
     THEN [s |-> [s EXCEPT !.log.stalled = Append(@, [iw |-> iw, why |-> "fence"])],
           skip |-> TRUE]
     ELSE [s |-> [s EXCEPT
                   !.Outputs[iw] = SimPort_push(@, state.fence_trace, 1),
                   !.states[block_idx].fence_lock = FALSE,
                   \* the latch is dead until the next fence writes it
                   !.states[block_idx].fence_trace = NoTrace,
                   !.log.pushed = Append(@, [trace |-> state.fence_trace, iw |-> iw,
                                             delay |-> 1, from |-> "fence"])],
           skip |-> FALSE]

\* "handle LSU requests", second part: the head of the lane's input queue
LsuInput(s, iw) ==
  LET block_idx == iw % NUM_LSU_BLOCKS
      state     == s.states[block_idx]
      trace     == SimPort_front(s.Inputs[iw])
      is_write  == trace.lsu_type = "STORE"
  IN IF SimPort_empty(s.Inputs[iw]) THEN s
     ELSE IF trace.lsu_type = "FENCE"
     THEN [s EXCEPT
            !.states[block_idx].fence_trace = trace,
            !.states[block_idx].fence_lock = TRUE,
            !.Inputs[iw] = SimPort_pop(@),
            !.wait_for = Fenced(@, block_idx, PendingUuids(state.pending_rd_reqs),
                                [s.Inputs EXCEPT ![iw] = SimPort_pop(@)]),
            !.log.popped = Append(@, [trace |-> trace, iw |-> iw])]
     ELSE IF ~is_write /\ HashTable_full(state.pending_rd_reqs)
     THEN [s EXCEPT
            !.Inputs[iw][1].pkt.log_once = TRUE,             \* trace->log_once(true)
            !.log.stalled = Append(@, [iw |-> iw, why |-> "full"])]
     ELSE
       LET issued == [trace EXCEPT !.log_once = FALSE]       \* trace->log_once(false)
           mask   == ReqMask(trace)
           alloc  == HashTable_allocate(state.pending_rd_reqs,
                                        [trace |-> issued, mask |-> mask])
           tag    == IF is_write THEN 0 ELSE alloc.index
           lsu_req == [mask |-> mask, write |-> is_write, tag |-> tag,
                       cid |-> trace.cid, uuid |-> trace.uuid]
           num_addrs == Cardinality(mask)
       IN [s EXCEPT
            !.states[block_idx].pending_rd_reqs = IF is_write THEN @ ELSE alloc.table,
            !.ReqIn[block_idx] = SimPort_push(@, lsu_req, 1),
            !.perf_stats.stores = IF is_write THEN @ + num_addrs ELSE @,
            !.perf_stats.loads  = IF is_write THEN @ ELSE @ + num_addrs,
            !.pending_loads     = IF is_write THEN @ ELSE @ + num_addrs,
            !.Outputs[iw] = IF is_write THEN SimPort_push(@, issued, 1) ELSE @,
            !.Inputs[iw] = SimPort_pop(@),
            !.log.allocs = IF is_write THEN @
                           ELSE Append(@, [b |-> block_idx, tag |-> tag, trace |-> issued]),
            !.log.reqs = Append(@, [b |-> block_idx, iw |-> iw, req |-> lsu_req,
                                    delay |-> 1]),
            !.log.pushed = IF is_write
                           THEN Append(@, [trace |-> issued, iw |-> iw, delay |-> 1,
                                           from |-> "store"])
                           ELSE @,
            !.log.popped = Append(@, [trace |-> issued, iw |-> iw])]

LsuLane_noskip(s, iw) == LsuInput(LsuFenceLock(s, iw).s, iw)

\* the body of the issue loop for lane iw
LsuLane(s, iw) ==
  LET l == LsuFenceLock(s, iw)
  IN IF l.skip THEN l.s ELSE LsuInput(l.s, iw)

RECURSIVE LsuRsps(_, _)
LsuRsps(s, b) ==
  IF b = NUM_LSU_BLOCKS \/ s.fatal THEN s
  ELSE LsuRsps(LsuRsp(s, b), b + 1)

RECURSIVE LsuLanes_(_, _)
LsuLanes_(s, iw) ==
  IF iw = ISSUE_WIDTH \/ s.fatal THEN s
  ELSE LsuLanes_(LsuLane(s, iw), iw + 1)

\* LsuUnit::tick on s0: the responses of every bank, then every issue lane.
\* perf_stats_.load_latency, which the tick first raises by pending_loads_,
\* is a statistic nothing in the unit reads; it grows without bound while a
\* load is outstanding and is left out of the state.
\* pending_loads_ is unsigned: the value here is the C++ value modulo its
\* width, taken in the range around zero, so that it equals a small
\* non-negative number exactly when the C++ value does.
LsuTick(s0) == LsuLanes_(LsuRsps(s0, 0), 0)

\* what the environment took from a port during the cycle: the entries that
\* were visible; the others stay
Taken(port) == {port[k].pkt : k \in {n \in 1 .. Len(port) : port[n].delay = 0}}

Left(port) == SelectSeq(port, LAMBDA e : e.delay > 0)

\* the loads among the requests the memory side took
Owed(reqs) == {[req |-> r, covered |-> {}] : r \in {q \in reqs : ~q.write}}

\* One cycle of the platform for the LSU.  LsuUnit::tick runs; during the same
\* cycle the write-back collector consumes what is visible on the output lanes
\* and the memory side takes what is visible on the banks' request ports (the
\* unit reads neither port, so when they are emptied makes no difference to
\* it); then the clock advances.
LsuUnit_tick ==
  /\ ~fatal
  /\ \E s \in {LsuTick([Inputs |-> lsu_Inputs,
                        Outputs |-> [iw \in Lanes |-> Left(lsu_Outputs[iw])],
                        states |-> states, pending_loads |-> pending_loads,
                        perf_stats |-> perf_stats,
                        ReqIn |-> [b \in Banks |-> Left(lsu_ReqIn[b])],
                        RspIn |-> lsu_RspIn, wait_for |-> wait_for,
                        log |-> EmptyLog, fatal |-> FALSE])} :
        IF s.fatal
        THEN /\ fatal' = TRUE
             /\ UNCHANGED <<uuid_next, lsuVars>>
        ELSE /\ lsu_Inputs' = s.Inputs
             /\ lsu_Outputs' = AdvanceAll(s.Outputs)
             /\ states' = s.states
             /\ pending_loads' = s.pending_loads
             /\ perf_stats' = s.perf_stats
             /\ lsu_ReqIn' = AdvanceAll(s.ReqIn)
             /\ lsu_RspIn' = s.RspIn
             /\ wait_for' = s.wait_for
             /\ lsu_log' = s.log
             /\ retired' = retired \cup
                  {t.uuid : t \in UNION {Taken(lsu_Outputs[iw]) : iw \in Lanes}}
             /\ mem' = [b \in Banks |-> mem[b] \cup Owed(Taken(lsu_ReqIn[b]))]
             /\ UNCHANGED <<fatal, uuid_next, no_overlap>>
  /\ UNCHANGED notLsu

\* the front-end dispatches an LSU trace to lane wid mod ISSUE_WIDTH; a trace
\* that arrives on a bank behind a fence waits for the loads the fence waits for
LsuIssueTo(n) ==
  /\ ~fatal
  /\ uuid_next <= n
  /\ \E wid \in Warps, ty \in LsuTypes, pid \in Pids :
      \E tmask \in (IF ty = "FENCE" THEN {Threads} ELSE TMasks) :
       LET iw == wid % ISSUE_WIDTH
       IN /\ lsu_Inputs' = [lsu_Inputs EXCEPT ![iw] =
               Append(@, Now([uuid |-> uuid_next, cid |-> 0, wid |-> wid, pid |-> pid,
                              tmask |-> tmask, lsu_type |-> ty, log_once |-> FALSE]))]
          /\ wait_for' = [wait_for EXCEPT !.behind[uuid_next] =
                            wait_for.entered[iw % NUM_LSU_BLOCKS]]
  /\ uuid_next' = uuid_next + 1
  /\ lsu_log' = EmptyLog
  /\ UNCHANGED <<fatal, lsu_Outputs, states, pending_loads, perf_stats, lsu_ReqIn,
                 lsu_RspIn, mem, retired, no_overlap, notLsu>>

LsuIssue == LsuIssueTo(MaxLsuTraces)

\* the same front-end in the runs in which progress is followed to the end
LsuIssueFew == LsuIssueTo(MaxLiveTraces)

\* the packets the memory side may send next for a request it owes: lanes of
\* the request, at least one of them new; the one packet of a request without
\* lanes is empty.  A packet may repeat lanes an earlier packet carried.
Packets(o) ==
  IF o.req.mask = {} THEN {{}}
  ELSE {m \in SUBSET o.req.mask : m \ o.covered # {}}

\* the memory side sends one LsuRsp packet with the request's tag
MemRespond ==
  /\ ~fatal
  /\ \E b \in Banks : \E o \in mem[b] : \E m \in Packets(o) :
       /\ lsu_RspIn' = [lsu_RspIn EXCEPT ![b] =
            Append(@, Now([mask |-> m, tag |-> o.req.tag, cid |-> o.req.cid,
                           uuid |-> o.req.uuid]))]
       /\ mem' = [mem EXCEPT ![b] =
            IF o.covered \cup m = o.req.mask THEN @ \ {o}
            ELSE (@ \ {o}) \cup {[o EXCEPT !.covered = @ \cup m]}]
       /\ no_overlap' = (no_overlap /\ m \cap o.covered = {})
  /\ lsu_log' = EmptyLog
  /\ UNCHANGED <<fatal, uuid_next, lsu_Inputs, lsu_Outputs, states, pending_loads,
                 perf_stats, lsu_ReqIn, retired, wait_for, notLsu>>

----------------------------------------------------------------------------
\* SfuUnit

\* enum class SfuType
SfuTypes == {"TMC", "WSPAWN", "SPLIT", "JOIN", "BAR", "PRED", "CSRRW", "CSRRS",
             "CSRRC", "RASTER", "OM", "TEX", "CMOV"}

SfuPlain_cmov == {"TMC", "SPLIT", "JOIN", "PRED", "CSRRW", "CSRRS", "CSRRC", "CMOV"}

\* the sub-ops that only go to the output lane
SfuPlain == {"TMC", "SPLIT", "JOIN", "PRED", "CSRRW", "CSRRS", "CSRRC"}

\* the coprocessor units of the core, and SfuUnit::SfuUnit: pending_rsps_
\* holds the Output ports of the raster, texture and OM units in this order
CopUnits == {<<"raster", 0>>, <<"raster", 1>>, <<"tex", 0>>, <<"om", 0>>}
pending_rsps == << <<"raster", 0>>, <<"raster", 1>>, <<"tex", 0>>, <<"om", 0>> >>

\* core_->id() of the core this SFU belongs to
CoreId == 0

\* Core callbacks as recorded in core_calls, with the value they returned
\* and the uuid of the trace they were called for
Wspawn_swapped(arg1, arg2, ret, by) ==
  [fn |-> "wspawn", arg1 |-> arg2, arg2 |-> arg1, ret |-> ret, by |-> by]
Wspawn(arg1, arg2, ret, by) ==
  [fn |-> "wspawn", arg1 |-> arg1, arg2 |-> arg2, ret |-> ret, by |-> by]
Barrier(arg1, arg2, wid, ret, by) ==
  [fn |-> "barrier", arg1 |-> arg1, arg2 |-> arg2, wid |-> wid, ret |-> ret, by |-> by]

SfuForeign_none(trace, cid) == FALSE

\* the head of a coprocessor Output belongs to another core
SfuForeign(trace, cid) == trace.cid # cid

\* "handle pending responses": the n-th port of pending_rsps_, on
\* s = [cid, Inputs, Outputs, CopIn, CopOut, calls, popped, pushed, fatal],
\* cid being core_->id()
SfuRsp(s, n) ==
  LET u == pending_rsps[n]
  IN IF SimPort_empty(s.CopOut[u]) THEN s
     ELSE LET trace == SimPort_front(s.CopOut[u])
              iw == trace.wid % ISSUE_WIDTH
          IN IF SfuForeign(trace, s.cid) THEN s
             ELSE [s EXCEPT !.Outputs[iw] = SimPort_push(@, trace, 1),
                            !.pushed = Append(@, [trace |-> trace, to |-> <<"out", iw>>,
                                                  delay |-> 1]),
                            !.CopOut[u] = SimPort_pop(@)]

RECURSIVE SfuRsps(_, _)
SfuRsps(s, n) == IF n > Len(pending_rsps) THEN s ELSE SfuRsps(SfuRsp(s, n), n + 1)

\* release_warp ignores what the callback returned
SfuRelease_stall(trace, ret) == trace.fetch_stall

\* release_warp after the switch: fetch_stall, overridden by the value the
\* wspawn / barrier callback returned when that callback was called
SfuRelease(trace, ret) ==
  IF trace.sfu_type \in {"WSPAWN", "BAR"} /\ trace.eop THEN ret ELSE trace.fetch_stall

SfuUnitOf_first(trace) ==
  <<CASE trace.sfu_type = "RASTER" -> "raster" [] trace.sfu_type = "OM" -> "om"
      [] OTHER -> "tex", 0>>

\* the unit a RASTER / OM / TEX trace goes to: raster_units_.at(raster_idx),
\* om_units_.at(om_idx), tex_units_.at(tex_idx)
SfuUnitOf(trace) ==
  <<CASE trace.sfu_type = "RASTER" -> "raster" [] trace.sfu_type = "OM" -> "om"
      [] OTHER -> "tex", trace.idx>>

\* "check input queue": the body of the loop for lane iw; ret is the value
\* the wspawn / barrier callback returns if this lane calls it
SfuLane(s, iw, ret) ==
  IF SimPort_empty(s.Inputs[iw]) THEN s
  ELSE LET trace == SimPort_front(s.Inputs[iw])
           delay == 2
           ty    == trace.sfu_type
           s1 == IF ty \in {"WSPAWN", "BAR"} \cup SfuPlain
                 THEN [s EXCEPT !.Outputs[iw] = SimPort_push(@, trace, 2 + delay),
                                !.pushed = Append(@, [trace |-> trace, to |-> <<"out", iw>>,
                                                      delay |-> 2 + delay])]
                 ELSE LET u == SfuUnitOf(trace)
                      IN [s EXCEPT !.CopIn[u] = SimPort_push(@, trace, delay),
                                   !.pushed = Append(@, [trace |-> trace, to |-> u,
                                                         delay |-> delay])]
           s2 == IF ty = "WSPAWN" /\ trace.eop
                 THEN [s1 EXCEPT !.calls = Append(@, Wspawn(trace.arg1, trace.arg2, ret,
                                                            trace.uuid))]
                 ELSE IF ty = "BAR" /\ trace.eop
                 THEN [s1 EXCEPT !.calls = Append(@, Barrier(trace.arg1, trace.arg2,
                                                             trace.wid, ret, trace.uuid))]
                 ELSE s1
           s3 == IF trace.eop /\ SfuRelease(trace, ret)
                 THEN [s2 EXCEPT !.calls = Append(@, Resume(trace.wid))]
                 ELSE s2
       IN IF ty \notin {"WSPAWN", "BAR", "RASTER", "OM", "TEX"} \cup SfuPlain
          THEN [s EXCEPT !.fatal = TRUE]
          ELSE [s3 EXCEPT !.popped = Append(@, [trace |-> trace, iw |-> iw]),
                          !.Inputs[iw] = SimPort_pop(@)]

RECURSIVE SfuLanes(_, _, _)
SfuLanes(s, iw, rets) ==
  IF iw = ISSUE_WIDTH \/ s.fatal THEN s
  ELSE SfuLanes(SfuLane(s, iw, rets[iw]), iw + 1, rets)

\* SfuUnit::tick
SfuTick(s, rets) == SfuLanes(SfuRsps(s, 1), 0, rets)

\* One cycle of the platform for the SFU: SfuUnit::tick runs, with rets[iw]
\* the value a callback called for lane iw returns; the write-back collector
\* takes what is visible on the output lanes; the clock advances.
SfuUnit_tick ==
  /\ ~fatal
  /\ \E rets \in [Lanes -> BOOLEAN] :
       LET s == SfuTick([cid |-> CoreId, Inputs |-> sfu_Inputs,
                         Outputs |-> [iw \in Lanes |-> Left(sfu_Outputs[iw])],
                         CopIn |-> cop_Input, CopOut |-> cop_Output,
                         calls |-> <<>>, popped |-> <<>>, pushed |-> <<>>,
                         fatal |-> FALSE], rets)
       IN IF s.fatal
          THEN /\ fatal' = TRUE
               /\ UNCHANGED <<core_calls, popped, sfuVars>>
          ELSE /\ sfu_Inputs' = s.Inputs
               /\ sfu_Outputs' = AdvanceAll(s.Outputs)
               /\ cop_Input' = AdvanceAll(s.CopIn)
               /\ cop_Output' = s.CopOut
               /\ core_calls' = s.calls
               /\ popped' = s.popped
               /\ sfu_pushed' = s.pushed
               /\ UNCHANGED <<fatal, peer_Inputs, peer_Outputs, ticked>>
  /\ UNCHANGED <<uuid_next, since_pop, notSfu>>

\* the front-end dispatches an SFU trace to lane wid mod ISSUE_WIDTH
SfuIssue ==
  /\ ~fatal
  /\ uuid_next <= MaxSfuTraces
  /\ \E wid \in Warps, ty \in SfuTypes, eop \in BOOLEAN, fs \in BOOLEAN :
      \E args \in (IF ty \in {"WSPAWN", "BAR"} THEN SfuArgs ELSE {<<0, 0>>}) :
      \E idx \in {u[2] : u \in {v \in CopUnits : v[1] = "raster" /\ ty = "RASTER"}} \cup {0} :
       sfu_Inputs' = [sfu_Inputs EXCEPT ![wid % ISSUE_WIDTH] =
          Append(@, Now([uuid |-> uuid_next, cid |-> CoreId, wid |-> wid,
                         sfu_type |-> ty, eop |-> eop, fetch_stall |-> fs,
                         arg1 |-> args[1], arg2 |-> args[2], idx |-> idx]))]
  /\ uuid_next' = uuid_next + 1
  /\ core_calls' = <<>> /\ popped' = <<>> /\ sfu_pushed' = <<>>
  /\ UNCHANGED <<fatal, since_pop, sfu_Outputs, cop_Input, cop_Output, notSfu,
                 peer_Inputs, peer_Outputs, ticked>>

\* a coprocessor unit finishes the trace at the head of its Input and puts
\* it on its Output
CopReturn ==
  /\ ~fatal
  /\ \E u \in CopUnits :
       /\ ~SimPort_empty(cop_Input[u])
       /\ cop_Input' = [cop_Input EXCEPT ![u] = SimPort_pop(@)]
       /\ cop_Output' = [cop_Output EXCEPT ![u] = Append(@, Now(SimPort_front(cop_Input[u])))]
  /\ core_calls' = <<>> /\ popped' = <<>> /\ sfu_pushed' = <<>>
  /\ UNCHANGED <<fatal, uuid_next, since_pop, sfu_Inputs, sfu_Outputs, notSfu,
                 peer_Inputs, peer_Outputs, ticked>>

\* A second core whose SFU shares the raster / texture / OM units
PeerId == 1
Cores == {CoreId, PeerId}

\* SfuUnit::tick of core c, in a cycle in which it has not ticked yet; the
\* write-back collector of the core takes what is visible on its output
\* lanes
SfuUnit_tick_of(c) ==
  /\ ~fatal
  /\ c \notin ticked
  /\ ticked' = ticked \cup {c}
  /\ \E rets \in [Lanes -> BOOLEAN] :
       LET ins  == IF c = CoreId THEN sfu_Inputs ELSE peer_Inputs
           outs == IF c = CoreId THEN sfu_Outputs ELSE peer_Outputs
           s == SfuTick([cid |-> c, Inputs |-> ins,
                         Outputs |-> [iw \in Lanes |-> Left(outs[iw])],
                         CopIn |-> cop_Input, CopOut |-> cop_Output,
                         calls |-> <<>>, popped |-> <<>>, pushed |-> <<>>,
                         fatal |-> FALSE], rets)
       IN IF s.fatal
          THEN /\ fatal' = TRUE
               /\ UNCHANGED <<core_calls, popped, sfu_Inputs, sfu_Outputs, cop_Input,
                              cop_Output, sfu_pushed, peer_Inputs, peer_Outputs>>
          ELSE /\ sfu_Inputs' = IF c = CoreId THEN s.Inputs ELSE sfu_Inputs
               /\ sfu_Outputs' = IF c = CoreId THEN s.Outputs ELSE sfu_Outputs
               /\ peer_Inputs' = IF c = PeerId THEN s.Inputs ELSE peer_Inputs
               /\ peer_Outputs' = IF c = PeerId THEN s.Outputs ELSE peer_Outputs
               /\ cop_Input' = s.CopIn
               /\ cop_Output' = s.CopOut
               /\ core_calls' = s.calls
               /\ popped' = s.popped
               /\ sfu_pushed' = s.pushed
               /\ UNCHANGED fatal
  /\ UNCHANGED <<uuid_next, since_pop, notSfu>>

\* the SFU of some core ticks
SfuUnits_tick == \E c \in Cores : SfuUnit_tick_of(c)

\* every SFU has ticked: the cycle ends and the clock advances
EndCycle ==
  /\ ~fatal
  /\ ticked = Cores
  /\ ticked' = {}
  /\ sfu_Outputs' = AdvanceAll(sfu_Outputs)
  /\ peer_Outputs' = AdvanceAll(peer_Outputs)
  /\ cop_Input' = AdvanceAll(cop_Input)
  /\ core_calls' = <<>> /\ popped' = <<>> /\ sfu_pushed' = <<>>
  /\ UNCHANGED <<fatal, uuid_next, since_pop, sfu_Inputs, peer_Inputs, cop_Output, notSfu>>

\* the front-end of core c dispatches a RASTER / TEX / OM trace
CopIssue ==
  /\ ~fatal
  /\ uuid_next <= MaxCopTraces
  /\ \E c \in Cores, wid \in Warps, ty \in {"RASTER", "TEX", "OM"} :
       LET trace == [uuid |-> uuid_next, cid |-> c, wid |-> wid, sfu_type |-> ty,
                     eop |-> TRUE, fetch_stall |-> FALSE, arg1 |-> 0, arg2 |-> 0,
                     idx |-> 0]
       IN /\ sfu_Inputs' = IF c = CoreId
                            THEN [sfu_Inputs EXCEPT ![wid % ISSUE_WIDTH] = Append(@, Now(trace))]
                            ELSE sfu_Inputs
          /\ peer_Inputs' = IF c = PeerId
                             THEN [peer_Inputs EXCEPT ![wid % ISSUE_WIDTH] = Append(@, Now(trace))]
                             ELSE peer_Inputs
  /\ uuid_next' = uuid_next + 1
  /\ core_calls' = <<>> /\ popped' = <<>> /\ sfu_pushed' = <<>>
  /\ UNCHANGED <<fatal, since_pop, sfu_Outputs, peer_Outputs, cop_Input, cop_Output,
                 ticked, notSfu>>

----------------------------------------------------------------------------
\* Mux<Type>

\* a & b on uint32_t values
RECURSIVE BitAnd(_, _)
BitAnd(a, b) ==
  IF a = 0 \/ b = 0 THEN 0
  ELSE (a % 2) * (b % 2) + 2 * BitAnd(a \div 2, b \div 2)

\* enum class ArbiterType
ArbiterTypes == {"Priority", "RoundRobin"}

\* the construction arguments (num_inputs, num_outputs) of the instances
\* modelled; none is in bypass mode
MuxShapes == {<<2, 1>>, <<4, 1>>, <<3, 1>>, <<4, 2>>, <<3, 2>>}

\* Mux::Mux: the members the constructor sets and the ports it creates
Mux(type, num_inputs, num_outputs, delay) ==
  [type_ |-> type, delay_ |-> delay,
   I |-> num_inputs, O |-> num_outputs,
   num_reqs_ |-> num_inputs \div num_outputs,
   cursors_ |-> [o \in 0 .. (num_outputs - 1) |-> 0],
   Inputs |-> [j \in 0 .. (num_inputs - 1) |-> <<>>],
   Outputs |-> [o \in 0 .. (num_outputs - 1) |-> <<>>],
   grant |-> [o \in 0 .. (num_outputs - 1) |-> {}]]

\* a cursor that forgets to advance past the granted input
Mux_update_cursor_stuck(m, index, grant) ==
  IF m.type_ = "RoundRobin"
  THEN [m EXCEPT !.cursors_[index] = grant]
  ELSE m

\* Mux::update_cursor
Mux_update_cursor(m, index, grant) ==
  IF m.type_ = "RoundRobin"
  THEN [m EXCEPT !.cursors_[index] = grant + 1]
  ELSE m

\* the scan of output o's inputs from position r on: the first non-empty
\* input is forwarded and the scan ends
RECURSIVE MuxScan(_, _, _)
MuxScan(m, o, r) ==
  IF r = m.num_reqs_ THEN m
  ELSE LET i == BitAnd(m.cursors_[o] + r, m.num_reqs_ - 1)
           j == o * m.num_reqs_ + i
       IN IF j >= m.I THEN MuxScan(m, o, r + 1)
          ELSE IF SimPort_empty(m.Inputs[j]) THEN MuxScan(m, o, r + 1)
          ELSE Mux_update_cursor(
                 [m EXCEPT !.Outputs[o] = SimPort_push(@, SimPort_front(m.Inputs[j]),
                                                       m.delay_),
                           !.Inputs[j] = SimPort_pop(@),
                           !.grant[o] = {j}],
                 o, i)

RECURSIVE MuxOutputs(_, _)
MuxOutputs(m, o) == IF o = m.O THEN m ELSE MuxOutputs(MuxScan(m, o, 0), o + 1)

\* Mux::tick; grant[o] holds the input output o forwarded, if any
MuxTick(m) ==
  IF m.I = m.O THEN m
  ELSE MuxOutputs([m EXCEPT !.grant = [o \in DOMAIN m.grant |-> {}]], 0)

\* the last n elements of a sequence
LastN(seq, n) == IF Len(seq) <= n THEN seq ELSE SubSeq(seq, Len(seq) - n + 1, Len(seq))

\* the grants of an arbiter that has been backlogged at every tick so far:
\* per output the last I granted inputs; nothing once an input was empty
Window(hist, backlogged, grant, I) ==
  IF backlogged
  THEN [o \in DOMAIN hist |->
          IF grant[o] = {} THEN hist[o]
          ELSE LastN(Append(hist[o], CHOOSE j \in grant[o] : TRUE), I)]
  ELSE [o \in DOMAIN hist |-> <<>>]

\* One cycle of the platform for the Mux: Mux::tick runs, the consumer takes
\* what is visible on the outputs, the clock advances.
Mux_tick ==
  /\ ~fatal
  /\ LET m == MuxTick([mux EXCEPT !.Outputs = [o \in DOMAIN @ |-> Left(@[o])]])
         b == mux_backlogged /\ \A j \in DOMAIN mux.Inputs : ~SimPort_empty(mux.Inputs[j])
     IN /\ mux' = [m EXCEPT !.Outputs = AdvanceAll(@), !.Inputs = AdvanceAll(@)]
        /\ mux_backlogged' = b
        /\ mux_grants' = Window(mux_grants, b, m.grant, mux.I)
  /\ UNCHANGED notMux

\* a producer pushes an item to input j
MuxPush ==
  /\ ~fatal
  /\ \E j \in DOMAIN mux.Inputs :
       /\ Len(mux.Inputs[j]) < MaxMuxQueue
       /\ mux' = [mux EXCEPT !.Inputs[j] = Append(@, Now([src |-> j]))]
  /\ UNCHANGED <<mux_backlogged, mux_grants, notMux>>

----------------------------------------------------------------------------
\* Switch<Req, Rsp>, instantiated as MemSwitch = Switch<MemReq, MemRsp>

\* tags are kept as the set of the positions of their 1 bits
RECURSIVE BitsOf(_)
BitsOf(n) ==
  IF n = 0 THEN {}
  ELSE {b + 1 : b \in BitsOf(n \div 2)} \cup (IF n % 2 = 1 THEN {0} ELSE {})

\* the number n in a field of `width` bits
Bits(n, width) == BitsOf(n) \cap (0 .. (width - 1))

RECURSIVE Val(_)
Val(bits) ==
  IF bits = {} THEN 0
  ELSE LET b == CHOOSE x \in bits : TRUE IN (2 ^ b) + Val(bits \ {b})

\* tag << n stored in a field of `width` bits, and tag >> n
Shl(tag, n, width) == {b + n : b \in {x \in tag : x + n < width}}
Shr(tag, n) == {b - n : b \in {x \in tag : x >= n}}

\* log2ceil (util.h): the least k with 2^k >= n
log2ceil(n) == CHOOSE k \in 0 .. 5 : 2 ^ k >= n /\ \A l \in 0 .. (k - 1) : 2 ^ l < n

\* the construction arguments (num_inputs, num_outputs) of the instances
\* modelled; none is in bypass mode
SwShapes == {<<2, 1>>, <<4, 1>>, <<4, 2>>, <<3, 1>>}

\* the tag values upstream units put in their requests
SwTags == {{0}, {1, 31}}

\* Switch::Switch
Switch(type, num_inputs, num_outputs, delay) ==
  [type_ |-> type, delay_ |-> delay,
   I |-> num_inputs, O |-> num_outputs,
   lg_num_reqs_ |-> log2ceil(num_inputs \div num_outputs),
   cursors_ |-> [o \in 0 .. (num_outputs - 1) |-> 0],
   ReqIn  |-> [j \in 0 .. (num_inputs - 1) |-> <<>>],
   RspIn  |-> [j \in 0 .. (num_inputs - 1) |-> <<>>],
   ReqOut |-> [o \in 0 .. (num_outputs - 1) |-> <<>>],
   RspOut |-> [o \in 0 .. (num_outputs - 1) |-> <<>>],
   grant |-> [o \in 0 .. (num_outputs - 1) |-> {}],
   fatal |-> FALSE]

\* an encoding that forgets to make room for the input index
Switch_encode_noshift(tag, lg, i) == tag \cup Bits(i, TAG_BITS)

\* req.tag = (req.tag << lg_num_reqs_) | i, in MemReq's uint32_t tag
Switch_encode(tag, lg, i) == Shl(tag, lg, TAG_BITS) \cup Bits(i, TAG_BITS)

\* i = rsp.tag & (R-1)
Switch_index(tag, R) == Val(tag \cap Bits(R - 1, TAG_BITS))

\* rsp.tag >>= lg_num_reqs_
Switch_decode(tag, lg) == Shr(tag, lg)

\* Switch::update_cursor
Switch_update_cursor(x, index, grant) ==
  IF x.type_ = "RoundRobin"
  THEN [x EXCEPT !.cursors_[index] = grant + 1]
  ELSE x

\* "process incoming responses" of output o
SwitchRsp(x, o) ==
  IF SimPort_empty(x.RspOut[o]) THEN x
  ELSE LET rsp == SimPort_front(x.RspOut[o])
           lg  == x.lg_num_reqs_
           i   == IF lg # 0 THEN Switch_index(rsp.tag, 2 ^ lg) ELSE 0
           out == IF lg # 0 THEN [rsp EXCEPT !.tag = Switch_decode(@, lg)] ELSE rsp
           j   == o * (2 ^ lg) + i
       IN IF j \notin DOMAIN x.RspIn THEN [x EXCEPT !.fatal = TRUE]
          ELSE [x EXCEPT !.RspIn[j] = SimPort_push(@, out, 1),
                          !.RspOut[o] = SimPort_pop(@)]

\* "process incoming requests" of output o, from position r of the scan on
RECURSIVE SwitchReq(_, _, _)
SwitchReq(x, o, r) ==
  LET lg == x.lg_num_reqs_
      R  == 2 ^ lg
  IN IF r = R THEN x
     ELSE LET i == BitAnd(x.cursors_[o] + r, R - 1)
              j == o * R + i
          IN IF j >= x.I THEN SwitchReq(x, o, r + 1)
             ELSE IF SimPort_empty(x.ReqIn[j]) THEN SwitchReq(x, o, r + 1)
             ELSE LET in  == SimPort_front(x.ReqIn[j])
                      req == IF lg # 0
                             THEN [in EXCEPT !.tag = Switch_encode(@, lg, i)]
                             ELSE in
                  IN Switch_update_cursor(
                       [x EXCEPT !.ReqOut[o] = SimPort_push(@, req, x.delay_),
                                  !.ReqIn[j] = SimPort_pop(@),
                                  !.grant[o] = {j}],
                       o, i)

RECURSIVE SwitchOutputs(_, _)
SwitchOutputs(x, o) ==
  IF o = x.O \/ x.fatal THEN x
  ELSE LET s1 == SwitchRsp(x, o)
       IN SwitchOutputs(IF s1.fatal THEN s1 ELSE SwitchReq(s1, o, 0), o + 1)

\* Switch::tick; grant[o] holds the input output o forwarded, if any
SwitchTick(x) ==
  IF x.I = x.O THEN x
  ELSE SwitchOutputs([x EXCEPT !.grant = [o \in DOMAIN x.grant |-> {}]], 0)

\* One cycle of the platform for the Switch: Switch::tick runs, the
\* requesters take the responses visible on RspIn, the clock advances.
Switch_tick ==
  /\ ~fatal
  /\ LET s == SwitchTick([sw EXCEPT !.RspIn = [j \in DOMAIN @ |-> Left(@[j])]])
         b == sw_backlogged /\ \A j \in DOMAIN sw.ReqIn : ~SimPort_empty(sw.ReqIn[j])
     IN IF s.fatal
        THEN fatal' = TRUE /\ UNCHANGED <<swVars>>
        ELSE /\ sw' = [s EXCEPT !.ReqOut = AdvanceAll(@), !.RspIn = AdvanceAll(@)]
             /\ sw_backlogged' = b
             /\ sw_grants' = Window(sw_grants, b, s.grant, sw.I)
             /\ UNCHANGED fatal
  /\ UNCHANGED notSw

\* the packets inside the Switch
SwInFlight ==
  LET Held(ports) == SumOver(DOMAIN ports, [i \in DOMAIN ports |-> Len(ports[i])])
  IN Held(sw.ReqIn) + Held(sw.ReqOut) + Held(sw.RspOut) + Held(sw.RspIn)

\* an upstream unit puts a request on input j.  Besides its tag a packet
\* carries its history, which the Switch never reads: src, the input it
\* entered on, and orig, the tag it had there.
SwitchIssue ==
  /\ ~fatal
  /\ SwInFlight < MaxSwInFlight
  /\ \E j \in DOMAIN sw.ReqIn, tag \in SwTags :
       /\ Len(sw.ReqIn[j]) < MaxSwQueue
       /\ sw' = [sw EXCEPT !.ReqIn[j] =
                   Append(@, Now([tag |-> tag, src |-> j, orig |-> tag]))]
  /\ UNCHANGED <<fatal, sw_backlogged, sw_grants, notSw>>

\* the downstream stub takes the request at the head of ReqOut[o] and answers
\* with a MemRsp that carries the transmitted tag, in its uint64_t tag
SwitchEcho ==
  /\ ~fatal
  /\ \E o \in DOMAIN sw.ReqOut :
       /\ ~SimPort_empty(sw.ReqOut[o])
       /\ LET req == SimPort_front(sw.ReqOut[o])
          IN sw' = [sw EXCEPT !.ReqOut[o] = SimPort_pop(@),
                              !.RspOut[o] = Append(@, Now(req))]
  /\ UNCHANGED <<fatal, sw_backlogged, sw_grants, notSw>>

----------------------------------------------------------------------------
\* get_addr_type.  A uint64_t is kept as the set of the positions of its 1
\* bits, an int likewise after its conversion to uint64_t.

\* width of uint64_t addr and of the int in which 1 << LMEM_LOG_SIZE is computed
AddrBits == 64
IntBits == 32

\* a + b + carry on uint64_t, from bit i on
RECURSIVE AddFrom(_, _, _, _)
AddFrom(a, b, i, carry) ==
  IF i = AddrBits THEN {}
  ELSE LET ones == Cardinality({x \in {1, 2, 3} :
                                  \/ x = 1 /\ i \in a
                                  \/ x = 2 /\ i \in b
                                  \/ x = 3 /\ carry})
       IN (IF ones % 2 = 1 THEN {i} ELSE {}) \cup AddFrom(a, b, i + 1, ones >= 2)

\* a + b and a - b modulo 2^64
Add64(a, b) == AddFrom(a, b, 0, FALSE)
Sub64(a, b) == AddFrom(a, (0 .. (AddrBits - 1)) \ b, 0, TRUE)

\* a < b on uint64_t: the highest bit in which they differ is set in b
Lt64(a, b) == \E i \in b \ a : \A j \in a \ b : j < i

\* the constants of the build (VX_config.h): an IO window, and a local
\* memory that is enabled or not, with its base and the log2 of its size
AddrConfigs ==
  [IO_BASE_ADDR : {{6}}, IO_END_ADDR : {{7}, {33}},
   LMEM_ENABLED : BOOLEAN, LMEM_BASE_ADDR : {{16}, {40}},
   LMEM_LOG_SIZE : {0, 14, 30, 31, 32}]

\* the values (1 << n), computed in int and converted to uint64_t for the
\* comparison, that a build can produce: 2^n while it fits; INT_MIN, sign
\* extended, for n = 31; for n >= 32 the shift is undefined, and builds give
\* the shift by n mod 32 or 0
ShiftLeft1(n) ==
  IF n < IntBits - 1 THEN {{n}}
  ELSE IF n = IntBits - 1 THEN {(IntBits - 1) .. (AddrBits - 1)}
  ELSE {{n % IntBits}, {}}

\* get_addr_type(addr), with size the value of (1 << LMEM_LOG_SIZE)
get_addr_type(cfg, addr, size) ==
  IF ~Lt64(addr, cfg.IO_BASE_ADDR) /\ Lt64(addr, cfg.IO_END_ADDR) THEN "IO"
  ELSE IF /\ cfg.LMEM_ENABLED
          /\ ~Lt64(addr, cfg.LMEM_BASE_ADDR)
          /\ Lt64(Sub64(addr, cfg.LMEM_BASE_ADDR), size)
  THEN "Shared"
  ELSE "Global"

\* the addresses the callers classify: the ends of the address space and the
\* edges of the windows
Addrs(cfg) ==
  LET top == Add64(cfg.LMEM_BASE_ADDR, {cfg.LMEM_LOG_SIZE})
  IN {{}, 0 .. (AddrBits - 1),
      Sub64(cfg.IO_BASE_ADDR, {0}), cfg.IO_BASE_ADDR,
      Sub64(cfg.IO_END_ADDR, {0}), cfg.IO_END_ADDR,
      Sub64(cfg.LMEM_BASE_ADDR, {0}), cfg.LMEM_BASE_ADDR,
      Sub64(top, {0}), top, Add64(top, {0}),
      Add64(cfg.LMEM_BASE_ADDR, {IntBits}), Add64(cfg.LMEM_BASE_ADDR, {IntBits, 0})}

\* a caller classifies an address
Classify ==
  /\ \E addr \in Addrs(classified.cfg) :
     \E size \in ShiftLeft1(classified.cfg.LMEM_LOG_SIZE) :
       classified' = [classified EXCEPT
                        !.addr = addr,
                        !.type = get_addr_type(classified.cfg, addr, size)]
  /\ UNCHANGED notAddr

----------------------------------------------------------------------------
\* Initial states and specifications


InitShared ==
  /\ fatal = FALSE
  /\ uuid_next = 1
  /\ core_calls = <<>>
  /\ popped = <<>>
  /\ since_pop = [u \in Uuids |-> 0]

InitAlu == alu_Inputs = EmptyPorts /\ alu_Outputs = EmptyPorts
InitFpu == fpu_Inputs = EmptyPorts /\ fpu_Outputs = EmptyPorts

\* LsuUnit::LsuUnit and LsuUnit::reset
InitLsu ==
  /\ lsu_Inputs = EmptyPorts /\ lsu_Outputs = EmptyPorts
  /\ states = [b \in Banks |-> lsu_state_t]
  /\ pending_loads = 0
  /\ perf_stats = [loads |-> 0, stores |-> 0]
  /\ lsu_ReqIn = [b \in Banks |-> <<>>]
  /\ lsu_RspIn = [b \in Banks |-> <<>>]
  /\ mem = [b \in Banks |-> {}]
  /\ lsu_log = EmptyLog
  /\ retired = {}
  /\ no_overlap = TRUE
  /\ wait_for = [behind |-> [u \in Uuids |-> {}], entered |-> [b \in Banks |-> {}]]

\* a Mux after construction
InitMux(type, shape) ==
  /\ mux = Mux(type, shape[1], shape[2], 1)
  /\ mux_backlogged = TRUE
  /\ mux_grants = [o \in 0 .. (shape[2] - 1) |-> <<>>]

\* a Switch after construction
InitSw(type, shape) ==
  /\ sw = Switch(type, shape[1], shape[2], 1)
  /\ sw_backlogged = TRUE
  /\ sw_grants = [o \in 0 .. (shape[2] - 1) |-> <<>>]

InitSfu ==
  /\ sfu_Inputs = EmptyPorts /\ sfu_Outputs = EmptyPorts
  /\ cop_Input = [u \in CopUnits |-> <<>>]
  /\ cop_Output = [u \in CopUnits |-> <<>>]
  /\ sfu_pushed = <<>>
  /\ peer_Inputs = EmptyPorts /\ peer_Outputs = EmptyPorts
  /\ ticked = {}

\* no address classified yet, in the build the first configuration gives
InitAddr ==
  classified = [cfg |-> [IO_BASE_ADDR |-> {6}, IO_END_ADDR |-> {7}, LMEM_ENABLED |-> TRUE,
                         LMEM_BASE_ADDR |-> {16}, LMEM_LOG_SIZE |-> 14],
                addr |-> {}, type |-> "none"]

InitUnits == InitShared /\ InitAlu /\ InitFpu /\ InitLsu /\ InitSfu

Init ==
  /\ InitUnits
  /\ InitAddr
  /\ InitMux("RoundRobin", <<2, 1>>)
  /\ InitSw("RoundRobin", <<2, 1>>)

\* every Mux instance
InitMuxes ==
  /\ InitUnits
  /\ InitAddr
  /\ \E type \in ArbiterTypes, shape \in MuxShapes : InitMux(type, shape)
  /\ InitSw("RoundRobin", <<2, 1>>)

\* every Switch instance
InitSwitches ==
  /\ InitUnits
  /\ InitAddr
  /\ InitMux("RoundRobin", <<2, 1>>)
  /\ \E type \in ArbiterTypes, shape \in SwShapes : InitSw(type, shape)

\* every build
InitAddrs ==
  /\ InitUnits
  /\ InitMux("RoundRobin", <<2, 1>>)
  /\ InitSw("RoundRobin", <<2, 1>>)
  /\ \E cfg \in AddrConfigs : classified = [cfg |-> cfg, addr |-> {}, type |-> "none"]

NextAddr == Classify

SpecAddr == InitAddrs /\ [][NextAddr]_vars

NextSw == SwitchIssue \/ Switch_tick \/ SwitchEcho

SpecSw == InitSwitches /\ [][NextSw]_vars

NextSfu == SfuIssue \/ SfuUnit_tick \/ CopReturn

SpecSfu == Init /\ [][NextSfu]_vars

NextCores == CopIssue \/ SfuUnits_tick \/ CopReturn \/ EndCycle

SpecCores == Init /\ [][NextCores]_vars

NextMux == MuxPush \/ Mux_tick

SpecMux == InitMuxes /\ [][NextMux]_vars

\* the Mux is ticked at every cycle
FairMux == InitMuxes /\ [][NextMux]_vars /\ WF_vars(Mux_tick)

NextAlu == AluIssue \/ AluUnit_tick \/ AluCommit

SpecAlu == Init /\ [][NextAlu]_vars

NextLsu == LsuIssue \/ LsuUnit_tick \/ MemRespond

SpecLsu == Init /\ [][NextLsu]_vars

NextLive == LsuIssueFew \/ LsuUnit_tick \/ MemRespond

\* the unit is ticked forever and the memory side answers what it owes
FairLsu ==
  /\ Init /\ [][NextLive]_vars
  /\ WF_vars(LsuUnit_tick)
  /\ WF_vars(MemRespond)

NextFpu == FpuIssue \/ FpuUnit_tick \/ FpuCommit

SpecFpu == Init /\ [][NextFpu]_vars

----------------------------------------------------------------------------
\* Claims about LsuUnit

\* the traces the front-end has issued
Issued == 1 .. (uuid_next - 1)

\* number of places of `ports` that hold trace u
InPorts(ports, u) ==
  Cardinality({<<i, k>> \in (DOMAIN ports) \X (1 .. MaxLsuTraces + 1) :
                 k <= Len(ports[i]) /\ ports[i][k].pkt.uuid = u})

\* number of allocated pending-table slots that hold trace u
InPending(u) ==
  Cardinality({<<b, i>> \in Banks \X (0 .. (LSUQ_SIZE - 1)) :
                 /\ states[b].pending_rd_reqs.entries[i].first
                 /\ states[b].pending_rd_reqs.entries[i].second.trace.uuid = u})

\* number of banks whose fence latch holds trace u
InLatch(u) ==
  Cardinality({b \in Banks : states[b].fence_lock /\ states[b].fence_trace.uuid = u})

\* lanes the allocated slots of a bank still wait for
Remaining(b) ==
  LET t == states[b].pending_rd_reqs
  IN SumOver({i \in DOMAIN t.entries : t.entries[i].first},
             [i \in DOMAIN t.entries |-> Cardinality(t.entries[i].second.mask)])

\* C1: after every tick, for every packetization whose masks together cover
\* the request mask, pending_loads equals the sum over all banks and allocated
\* slots of the number of lanes in the slot's remaining mask.
C1_PendingLoadsSum == pending_loads = SumOver(Banks, [b \in Banks |-> Remaining(b)])

\* the same, as long as no response packet repeated a lane already answered
C1_DisjointOnly == no_overlap => C1_PendingLoadsSum

\* C2 as stated: every trace issued and not yet consumed is in exactly one of
\* an input queue, an output queue, a pending-table slot.
C2_ThreeContainers ==
  \A u \in Issued :
    u \notin retired =>
      InPorts(lsu_Inputs, u) + InPorts(lsu_Outputs, u) + InPending(u) = 1

\* C2 amended: every trace issued and not yet consumed is in exactly one of an
\* input queue, an output queue, a pending-table slot, or the fence_trace
\* latch of a locked bank.
C2_OneContainer ==
  \A u \in Issued :
    u \notin retired =>
      InPorts(lsu_Inputs, u) + InPorts(lsu_Outputs, u) + InPending(u) + InLatch(u) = 1

\* a fence is latched while a load is pending and a further trace waits on
\* an input lane
C2_Witness ==
  \E b \in Banks :
    /\ states[b].fence_lock /\ InLatch(states[b].fence_trace.uuid) = 1
    /\ ~HashTable_empty(states[b].pending_rd_reqs)
    /\ \E iw \in Lanes : lsu_Inputs[iw] # <<>>

\* C3: a trace that was behind a fence on the input lanes of the fence's bank
\* is on no output lane before every load that was pending in the bank when
\* the fence entered has been answered in full and its slot released.
C3_FenceOrdering ==
  \A iw \in Lanes : \A k \in 1 .. Len(lsu_Outputs[iw]) :
    wait_for.behind[lsu_Outputs[iw][k].pkt.uuid] = {}

\* a tick has just left a lane alone because its bank is fence-locked with a
\* load pending, and a trace behind the fence is waiting on that lane
C3_Witness ==
  \E k \in 1 .. Len(lsu_log.stalled) :
    LET iw == lsu_log.stalled[k].iw
    IN /\ lsu_log.stalled[k].why = "fence"
       /\ lsu_Inputs[iw] # <<>>
       /\ wait_for.behind[lsu_Inputs[iw][1].pkt.uuid] # {}
       /\ states[iw % NUM_LSU_BLOCKS].fence_lock
       /\ pending_loads > 0

\* what a tick does with the response at the head of bank b's port, which
\* answers slot `tag` holding `entry`
C4_Absorb(b) ==
  \E rsp \in {SimPort_front(lsu_RspIn[b])} :
  \E entry \in {states[b].pending_rd_reqs.entries[rsp.tag].second} :
    LET u      == entry.trace.uuid
        pushes == {k \in 1 .. Len(lsu_log'.pushed) : lsu_log'.pushed[k].trace.uuid = u}
        frees  == {k \in 1 .. Len(lsu_log'.released) :
                     lsu_log'.released[k] = [b |-> b, tag |-> rsp.tag]}
    IN IF entry.mask \ rsp.mask = {}
       THEN /\ Cardinality(pushes) = 1
            /\ \A k \in pushes :
                 /\ lsu_log'.pushed[k].trace = entry.trace
                 /\ lsu_log'.pushed[k].delay = 1
                 /\ lsu_log'.pushed[k].iw = entry.trace.wid % ISSUE_WIDTH
            /\ InPorts(lsu_Outputs', u) = 1
            /\ Cardinality(frees) = 1
            /\ InPending(u)' = 0
       ELSE /\ pushes = {} /\ frees = {}
            /\ InPorts(lsu_Outputs', u) = 0
            /\ InPending(u)' = 1

\* C4: for every load and every split of its response into packets, the trace
\* is pushed once, with delay 1 on lane wid mod ISSUE_WIDTH, by the tick that
\* absorbs the last packet, which releases the slot once; the ticks that
\* absorb the earlier packets push nothing and release nothing.
C4_LoadReassembly ==
  [][ LsuUnit_tick =>
        \A b \in Banks :
          ~SimPort_empty(lsu_RspIn[b]) => C4_Absorb(b) ]_vars

\* the same for the loads that have at least one active lane
C4_ActiveLoads ==
  [][ LsuUnit_tick =>
        \A b \in Banks :
          (/\ ~SimPort_empty(lsu_RspIn[b])
           /\ SimPort_front(lsu_RspIn[b]).mask # {}) => C4_Absorb(b) ]_vars

----------------------------------------------------------------------------
\* Claims about Mux and Switch

\* the instance is a round-robin arbiter with one output and 2^k inputs
C7_Case(m) == m.type_ = "RoundRobin" /\ m.O = 1 /\ m.I \in {2, 4}

\* C7: under RoundRobin with one output, I = 2^k inputs, cursor initially 0
\* and every input non-empty at every tick, every window of I consecutive
\* grants contains each input exactly once.
C7_RoundRobinWindow ==
  (C7_Case(mux) /\ mux_backlogged) =>
       \A n \in 1 .. Len(mux_grants[0]) : \A k \in 1 .. Len(mux_grants[0]) :
         mux_grants[0][n] = mux_grants[0][k] => n = k

\* a Mux of four inputs has been backlogged for five ticks and the grants
\* went round once
C7_Witness ==
  /\ C7_Case(mux) /\ mux.I = 4 /\ mux_backlogged
  /\ Len(mux_grants[0]) = 4 /\ mux_grants[0][1] = 1 /\ mux.cursors_[0] = 1

\* the same for the request path of a Switch
C7_SwitchWindow ==
  (C7_Case(sw) /\ sw_backlogged) =>
     \A n \in 1 .. Len(sw_grants[0]) : \A k \in 1 .. Len(sw_grants[0]) :
       sw_grants[0][n] = sw_grants[0][k] => n = k

\* a Switch of two inputs, backlogged at both of its ticks, granted 0 then 1
C7_SwitchWitness ==
  C7_Case(sw) /\ sw_backlogged /\ sw_grants[0] = <<0, 1>> /\ sw.cursors_[0] = 2

\* the Switch has more inputs than outputs and R = 2^k inputs per output
C5_Case == sw.I > sw.O /\ sw.I = sw.O * (2 ^ sw.lg_num_reqs_)

\* the number in the low k bits of a tag
LowBits(tag, k) == Val(tag \cap (0 .. (k - 1)))

\* every request on ReqOut[o] came from input o*R + (low k bits of its tag)
C5_Requests ==
  \A o \in DOMAIN sw.ReqOut : \A n \in 1 .. Len(sw.ReqOut[o]) :
    LET req == sw.ReqOut[o][n].pkt
    IN req.src = o * (2 ^ sw.lg_num_reqs_) + LowBits(req.tag, sw.lg_num_reqs_)

\* the outputs whose head response the tick has to route to input j
C5_Routed(j) ==
  {o \in DOMAIN sw.RspOut :
     /\ ~SimPort_empty(sw.RspOut[o])
     /\ j = o * (2 ^ sw.lg_num_reqs_)
              + LowBits(SimPort_front(sw.RspOut[o]).tag, sw.lg_num_reqs_)}

\* a tick adds to RspIn[j] the responses routed to j and nothing else
C5_Responses ==
  \A j \in DOMAIN sw.RspIn :
    /\ Len(sw'.RspIn[j]) = Len(Left(sw.RspIn[j])) + Cardinality(C5_Routed(j))
    /\ \A o \in C5_Routed(j) :
         \E rsp \in {SimPort_front(sw.RspOut[o])} :
           \E n \in 1 .. Len(sw'.RspIn[j]) :
             /\ sw'.RspIn[j][n].pkt.src = rsp.src
             /\ sw'.RspIn[j][n].pkt.orig = rsp.orig

\* every response on RspIn[j] answers a request that entered on input j
C5_Delivered ==
  \A j \in DOMAIN sw.RspIn : \A n \in 1 .. Len(sw.RspIn[j]) :
    sw.RspIn[j][n].pkt.src = j

\* C5: in a Switch with I > O and R = 2^k inputs per output, a request
\* forwarded from input o*R+i to ReqOut[o] has i in the low k bits of its tag,
\* a response on RspOut[o] with i in the low k bits of its tag is pushed to
\* RspIn[o*R+i] and to no other port, and so an echoed response is delivered
\* to the input that produced the request.
C5_TagRouting ==
  [][ /\ C5_Case' => (C5_Requests' /\ C5_Delivered')
      /\ (C5_Case /\ Switch_tick) => C5_Responses ]_vars

\* a response to a request from input 3 of a Switch with two outputs is on
\* RspIn[3], and a response on its way to input 2 is on RspOut[1]
C5_Witness ==
  /\ C5_Case /\ sw.O = 2
  /\ sw.RspIn[3] # <<>> /\ sw.RspIn[3][1].pkt.src = 3
  /\ sw.RspOut[1] # <<>> /\ sw.RspOut[1][1].pkt.src = 2

\* C6: for every 32-bit request tag t and input index i < R, encoding on the
\* request path and decoding on the response path, with a stub that echoes
\* the transmitted tag, gives back t and i.
C6_TagRoundTrip ==
  \A j \in DOMAIN sw.RspIn : \A n \in 1 .. Len(sw.RspIn[j]) :
    LET rsp == sw.RspIn[j][n].pkt
    IN rsp.tag = rsp.orig /\ j = rsp.src

\* the same for the tags whose top lg_num_reqs_ bits are clear
C6_NarrowTags ==
  \A j \in DOMAIN sw.RspIn : \A n \in 1 .. Len(sw.RspIn[j]) :
    LET rsp == sw.RspIn[j][n].pkt
    IN (\A b \in rsp.orig : b + sw.lg_num_reqs_ < TAG_BITS) =>
         (rsp.tag = rsp.orig /\ j = rsp.src)

----------------------------------------------------------------------------
\* Claims about SfuUnit

\* number of core.resume(wid) calls of the latest tick
Resumes(wid) == Cardinality({n \in 1 .. Len(core_calls) : core_calls[n] = Resume(wid)})

\* the wspawn / barrier callback was called for trace t and returned true
ReturnedTrue(t) ==
  \E n \in 1 .. Len(core_calls) :
    /\ core_calls[n].fn \in {"wspawn", "barrier"}
    /\ core_calls[n].by = t.uuid
    /\ core_calls[n].ret

\* C8: for every WSPAWN or BAR trace consumed by SfuUnit::tick, whatever
\* arg1, arg2, eop and fetch_stall are, core.resume(trace.wid) is called in
\* that tick iff eop is true and the wspawn / barrier callback returned true.
C8_ResumeIffCallback ==
  \A k \in 1 .. Len(popped) :
    LET t == popped[k].trace
    IN t.sfu_type \in {"WSPAWN", "BAR"} =>
         Resumes(t.wid) = IF t.eop /\ ReturnedTrue(t) THEN 1 ELSE 0

\* one tick consumed a WSPAWN with eop and without fetch_stall whose callback
\* returned true, and resumed its warp, and a BAR with eop and fetch_stall
\* whose callback returned false, and did not resume its warp
C8_Witness ==
  \E k \in 1 .. Len(popped), l \in 1 .. Len(popped) :
    LET t == popped[k].trace
        b == popped[l].trace
    IN /\ t.sfu_type = "WSPAWN" /\ t.eop /\ ~t.fetch_stall /\ t.arg1 = 1
       /\ ReturnedTrue(t) /\ Resumes(t.wid) = 1
       /\ b.sfu_type = "BAR" /\ b.eop /\ b.fetch_stall
       /\ ~ReturnedTrue(b) /\ Resumes(b.wid) = 0

----------------------------------------------------------------------------
\* Claims about AluUnit and FpuUnit

\* every packet of an output lane became or becomes visible exactly
\* Delay(type) cycles after the tick that popped its trace
OnTime(outs, Delay(_), field) ==
  \A iw \in Lanes : \A k \in 1 .. Len(outs[iw]) :
    LET e == outs[iw][k]
    IN since_pop[e.pkt.uuid] + e.delay = Delay(e.pkt[field])

\* the tick popped the visible head of every non-empty lane and pushed it to
\* the output lane of the same index
AllConsumed(ins, outs) ==
  \A iw \in Lanes :
    ~SimPort_empty(ins[iw]) =>
      /\ \E k \in 1 .. Len(popped') :
            popped'[k] = [trace |-> SimPort_front(ins[iw]), iw |-> iw]
      /\ SimPort_front(ins[iw]) \in PortPkts(outs[iw])
      /\ \A jw \in Lanes \ {iw} : SimPort_front(ins[iw]) \notin PortPkts(outs[jw])

\* cycles from pop to visibility that the latency claims state
C9_Cycles(alu_type) ==
  IF alu_type = "IMUL" THEN LATENCY_IMUL + 2
  ELSE IF alu_type = "IDIV" THEN XLEN + 2 ELSE 4

C10_Cycles(fpu_type) ==
  IF fpu_type = "FNCP" THEN 4
  ELSE IF fpu_type = "FMA" THEN LATENCY_FMA + 2
  ELSE IF fpu_type = "FDIV" THEN LATENCY_FDIV + 2
  ELSE IF fpu_type = "FSQRT" THEN LATENCY_FSQRT + 2
  ELSE LATENCY_FCVT + 2

\* C9: a trace at the head of ALU input lane iw is popped by the tick and is
\* visible on output lane iw exactly 4 (ARITH, BRANCH, SYSCALL),
\* LATENCY_IMUL+2 (IMUL) or XLEN+2 (IDIV) cycles later, whatever else is in
\* flight; no non-empty input lane is left unconsumed by a tick.
C9_AluLatency ==
  [][ /\ OnTime(alu_Outputs, C9_Cycles, "alu_type")'
      /\ AluUnit_tick => AllConsumed(alu_Inputs, alu_Outputs') ]_vars

\* an IDIV result has just become visible while a second trace, popped
\* later, is still in flight on the same unit
C9_Witness ==
  \E iw \in Lanes, jw \in Lanes :
    /\ alu_Outputs[iw] # <<>> /\ alu_Outputs[jw] # <<>>
    /\ LET e == alu_Outputs[iw][1]
           f == alu_Outputs[jw][Len(alu_Outputs[jw])]
       IN /\ e.pkt.alu_type = "IDIV" /\ e.delay = 0
          /\ since_pop[e.pkt.uuid] = XLEN + 2
          /\ f.pkt.uuid # e.pkt.uuid /\ f.delay > 0

\* C10: a trace at the head of FPU input lane iw is popped by the tick and
\* is visible on output lane iw exactly 4 (FNCP) or LATENCY_x+2 (FMA, FDIV,
\* FSQRT, FCVT) cycles later, and FpuUnit::tick never calls core.resume,
\* whatever eop and fetch_stall are.
C10_FpuLatency ==
  [][ /\ OnTime(fpu_Outputs, C10_Cycles, "fpu_type")'
      /\ FpuUnit_tick => /\ AllConsumed(fpu_Inputs, fpu_Outputs')
                          /\ core_calls' = <<>> ]_vars

\* an FDIV trace with eop and fetch_stall set has just become visible
C10_Witness ==
  \E iw \in Lanes :
    /\ fpu_Outputs[iw] # <<>>
    /\ LET e == fpu_Outputs[iw][1]
       IN /\ e.pkt.fpu_type = "FDIV" /\ e.delay = 0
          /\ e.pkt.eop /\ e.pkt.fetch_stall
          /\ since_pop[e.pkt.uuid] = LATENCY_FDIV + 2
          /\ core_calls = <<>> /\ popped = <<>>

\* C11: for every trace AluUnit::tick consumes, core.resume(trace.wid) is
\* called once, in the tick that pops the trace, iff eop and fetch_stall are
\* both true; a tick makes no other call.
C11_AluResume ==
  /\ \A wid \in Warps :
       Resumes(wid) = Cardinality({k \in 1 .. Len(popped) :
                                     /\ popped[k].trace.wid = wid
                                     /\ popped[k].trace.eop
                                     /\ popped[k].trace.fetch_stall})
  /\ \A n \in 1 .. Len(core_calls) : core_calls[n].fn = "resume"

\* one tick popped a trace with eop and fetch_stall, and resumed its warp,
\* and a trace with eop only, and did not resume its warp
C11_Witness ==
  \E k \in 1 .. Len(popped), l \in 1 .. Len(popped) :
    LET t == popped[k].trace
        u == popped[l].trace
    IN /\ t.eop /\ t.fetch_stall /\ Resumes(t.wid) = 1
       /\ u.eop /\ ~u.fetch_stall /\ Resumes(u.wid) = 0
       /\ Len(core_calls) = 1

\* bank b is fence-locked behind one last load, and the response at the head
\* of the bank's port carries every lane that load still waits for
C12_Final(b) ==
  /\ states[b].fence_lock
  /\ HashTable_size(states[b].pending_rd_reqs) = 1
  /\ ~SimPort_empty(lsu_RspIn[b])
  /\ HashTable_contains(states[b].pending_rd_reqs, SimPort_front(lsu_RspIn[b]).tag)
  /\ HashTable_at(states[b].pending_rd_reqs, SimPort_front(lsu_RspIn[b]).tag).mask
       \ SimPort_front(lsu_RspIn[b]).mask = {}

\* the last load of C12_Final has an active lane
C12_Active(b) ==
  HashTable_at(states[b].pending_rd_reqs, SimPort_front(lsu_RspIn[b]).tag).mask # {}

\* what a tick does with the fence latched in bank b while loads are pending
C12_Release(b) ==
  \E f \in {states[b].fence_trace} :
    LET pushes == {k \in 1 .. Len(lsu_log'.pushed) : lsu_log'.pushed[k].trace.uuid = f.uuid}
    IN IF C12_Final(b)
       THEN /\ Cardinality(pushes) = 1
            /\ \A k \in pushes : /\ lsu_log'.pushed[k].trace = f
                                 /\ lsu_log'.pushed[k].delay = 1
            /\ InPorts(lsu_Outputs', f.uuid) = 1
            /\ \E iw \in Lanes : \E k \in 1 .. Len(lsu_Outputs'[iw]) :
                 /\ lsu_Outputs'[iw][k].pkt = f
                 /\ lsu_Outputs'[iw][k].delay = 0
       ELSE /\ pushes = {}
            /\ InPorts(lsu_Outputs', f.uuid) = 0
            /\ states'[b].fence_lock /\ states'[b].fence_trace = f

\* C12: a fence popped while its bank has outstanding loads is on no output
\* while the pending table is non-empty; the tick that absorbs the final
\* response packet of the last outstanding load pushes it once, with delay 1,
\* so that it is visible in the next cycle.
C12_FenceRelease ==
  [][ /\ (\A b \in Banks :
            (states[b].fence_lock /\ ~HashTable_empty(states[b].pending_rd_reqs)) =>
               InPorts(lsu_Outputs, states[b].fence_trace.uuid) = 0)'
      /\ LsuUnit_tick =>
           \A b \in Banks :
             (states[b].fence_lock /\ ~HashTable_empty(states[b].pending_rd_reqs)) =>
                C12_Release(b) ]_vars

\* the same when the last outstanding load has at least one active lane
C12_ActiveLoads ==
  [][ /\ (\A b \in Banks :
            (states[b].fence_lock /\ ~HashTable_empty(states[b].pending_rd_reqs)) =>
               InPorts(lsu_Outputs, states[b].fence_trace.uuid) = 0)'
      /\ LsuUnit_tick =>
           \A b \in Banks :
             (/\ states[b].fence_lock /\ ~HashTable_empty(states[b].pending_rd_reqs)
              /\ C12_Final(b) => C12_Active(b)) =>
                C12_Release(b) ]_vars

\* slots of bank b whose allocated flag is set
C13_Allocated(b) ==
  {i \in DOMAIN states[b].pending_rd_reqs.entries :
     states[b].pending_rd_reqs.entries[i].first}

\* size() of every bank's table is the number of allocated slots, at most
\* the capacity
C13_SizeCount ==
  \A b \in Banks :
    /\ HashTable_size(states[b].pending_rd_reqs) = Cardinality(C13_Allocated(b))
    /\ HashTable_size(states[b].pending_rd_reqs) <= LSUQ_SIZE

\* C13: in every reachable state of every bank, size() is the number of
\* allocated slots (at most the capacity) and every allocated slot holds a
\* remaining mask with at least one bit set, for every LOAD the front-end may
\* issue, one with no active lane in its partial issue included.
C13_TableInvariants ==
  /\ C13_SizeCount
  /\ \A b \in Banks : \A i \in C13_Allocated(b) :
       states[b].pending_rd_reqs.entries[i].second.mask # {}

\* the input lanes mapped to bank b
C14_LanesOf(b) == {iw \in Lanes : iw % NUM_LSU_BLOCKS = b}

\* the traces queued in a port, in order
C14_Queue(port) == [k \in 1 .. Len(port) |-> port[k].pkt]

\* bank b is fence-locked and its table is still non-empty once the tick's
\* response loop has run
C14_Blocked(b) ==
  /\ states[b].fence_lock
  /\ ~HashTable_empty(states[b].pending_rd_reqs)
  /\ ~C12_Final(b)

\* the table of bank b is empty once the tick's response loop has run
C14_Drained(b) ==
  \/ HashTable_empty(states[b].pending_rd_reqs)
  \/ /\ HashTable_size(states[b].pending_rd_reqs) = 1
     /\ ~SimPort_empty(lsu_RspIn[b])
     /\ HashTable_contains(states[b].pending_rd_reqs, SimPort_front(lsu_RspIn[b]).tag)
     /\ HashTable_at(states[b].pending_rd_reqs, SimPort_front(lsu_RspIn[b]).tag).mask
          \ SimPort_front(lsu_RspIn[b]).mask = {}

\* the pops of the tick on lanes of bank b that follow the tick's last pop of
\* a FENCE on such a lane
C14_AfterLatch(b) ==
  LET fences == {k \in 1 .. Len(lsu_log'.popped) :
                   /\ lsu_log'.popped[k].iw \in C14_LanesOf(b)
                   /\ lsu_log'.popped[k].trace.lsu_type = "FENCE"}
  IN {n \in 1 .. Len(lsu_log'.popped) :
        /\ lsu_log'.popped[n].iw \in C14_LanesOf(b)
        /\ fences # {}
        /\ \A k \in fences : k < n}

\* C14: while a bank is fence-locked with a non-empty pending table, no lane
\* of the bank pops a trace, emits a request, allocates a slot or changes the
\* load/store counters; the lock is released only in a step in which the
\* bank's table is empty.
C14_FenceBlocks ==
  [][ LsuUnit_tick =>
        \A b \in Banks :
          /\ C14_Blocked(b) =>
               /\ \A iw \in C14_LanesOf(b) :
                    C14_Queue(lsu_Inputs'[iw]) = C14_Queue(lsu_Inputs[iw])
               /\ PortPkts(lsu_ReqIn'[b]) \subseteq PortPkts(lsu_ReqIn[b])
               /\ C13_Allocated(b)' \subseteq C13_Allocated(b)
               /\ perf_stats'.loads = perf_stats.loads
               /\ perf_stats'.stores = perf_stats.stores
               /\ states'[b].fence_lock
               /\ ~fatal' => /\ lsu_log'.popped = <<>>
                             /\ lsu_log'.reqs = <<>>
                             /\ lsu_log'.allocs = <<>>
          /\ (~fatal' /\ states'[b].fence_lock
                /\ ~HashTable_empty(states'[b].pending_rd_reqs)) =>
               C14_AfterLatch(b) = {}
          /\ (~fatal' /\ \E k \in 1 .. Len(lsu_log'.pushed) :
                           /\ lsu_log'.pushed[k].from = "fence"
                           /\ lsu_log'.pushed[k].iw \in C14_LanesOf(b)) =>
               C14_Drained(b)
          /\ (states[b].fence_lock /\ ~states'[b].fence_lock) => C14_Drained(b) ]_vars

\* a tick found a bank locked with a load pending: every lane of the bank
\* was skipped, nothing was popped, and a trace still waits on one of them
C14_Witness ==
  /\ ~fatal
  /\ \E b \in Banks :
       /\ states[b].fence_lock
       /\ ~HashTable_empty(states[b].pending_rd_reqs)
       /\ lsu_log.popped = <<>>
       /\ Cardinality({k \in 1 .. Len(lsu_log.stalled) :
                         lsu_log.stalled[k].why = "fence"}) = ISSUE_WIDTH
       /\ \E iw \in C14_LanesOf(b) : lsu_Inputs[iw] # <<>>

----------------------------------------------------------------------------
\* Claims about SFUs of several cores on shared coprocessor units

\* the output lanes of the SFU of core c
C15_Outputs(c) == IF c = CoreId THEN sfu_Outputs ELSE peer_Outputs

\* number of places trace u is on an SFU output lane of any core
C15_Delivered(u) == InPorts(sfu_Outputs, u) + InPorts(peer_Outputs, u)

\* what the tick of core c's SFU does with the Output port of unit u
C15_Drain(c, u) ==
  IF cop_Output[u] = <<>> THEN cop_Output'[u] = <<>>
  ELSE \E t \in {SimPort_front(cop_Output[u])} :
         IF t.cid = c
         THEN /\ cop_Output'[u] = Tail(cop_Output[u])
              /\ \E k \in 1 .. Len(C15_Outputs(c)'[t.wid % ISSUE_WIDTH]) :
                   C15_Outputs(c)'[t.wid % ISSUE_WIDTH][k] = [pkt |-> t, delay |-> 1]
              /\ C15_Delivered(t.uuid)' = 1
         ELSE /\ cop_Output'[u] = cop_Output[u]
              /\ C15_Delivered(t.uuid)' = 0

\* C15: with the SFUs of several cores on the same raster / texture / OM
\* Output port, a tick pops the head only if its cid is the ticking core's
\* id and pushes it with delay 1 to lane wid mod ISSUE_WIDTH of that core; a
\* head of another core stays in place; every returned trace that leaves
\* the port is on the outputs of exactly one SFU, that of its own core, in
\* every order of the ticks.
C15_SharedOutputs ==
  /\ [][ \A c \in Cores :
           (c \notin ticked /\ ticked' = ticked \cup {c}) =>
              \A u \in CopUnits : C15_Drain(c, u) ]_vars
  /\ [](\A c \in Cores : \A iw \in Lanes : \A t \in PortPkts(C15_Outputs(c)[iw]) :
          /\ t.cid = c
          /\ iw = t.wid % ISSUE_WIDTH
          /\ C15_Delivered(t.uuid) = 1
          /\ InPorts(cop_Output, t.uuid) = 0)

\* core 0 has ticked: it took its own trace from one unit and left the head
\* of another unit, a trace of core 1, in place
C15_Witness ==
  /\ ticked = {CoreId}
  /\ \E k \in 1 .. Len(sfu_pushed) :
       /\ sfu_pushed[k].delay = 1
       /\ sfu_pushed[k].trace.cid = CoreId
       /\ InPorts(sfu_Outputs, sfu_pushed[k].trace.uuid) = 1
  /\ \E u \in CopUnits :
       /\ cop_Output[u] # <<>>
       /\ SimPort_front(cop_Output[u]).cid = PeerId

----------------------------------------------------------------------------
\* Claims about the SFU input loop

\* the callbacks fn the latest tick made for trace t
C16_Calls(fn, t) ==
  {n \in 1 .. Len(core_calls) : core_calls[n].fn = fn /\ core_calls[n].by = t.uuid}

\* the pushes the latest tick made of trace t
C16_Pushes(t) == {n \in 1 .. Len(sfu_pushed) : sfu_pushed[n].trace = t}

\* C16: for every WSPAWN (BAR) trace the SFU consumes, core.wspawn(arg1, arg2)
\* (core.barrier(arg1, arg2, wid)) is called once with the trace's own
\* arguments if eop is true and not at all if it is false; either way the
\* trace is pushed once, to output lane iw, with delay 4.
C16_SpawnBarrier ==
  /\ \A k \in 1 .. Len(popped) :
       LET t == popped[k].trace
           iw == popped[k].iw
       IN t.sfu_type \in {"WSPAWN", "BAR"} =>
            /\ Cardinality(C16_Calls("wspawn", t)) =
                 (IF t.sfu_type = "WSPAWN" /\ t.eop THEN 1 ELSE 0)
            /\ Cardinality(C16_Calls("barrier", t)) =
                 (IF t.sfu_type = "BAR" /\ t.eop THEN 1 ELSE 0)
            /\ \A n \in C16_Calls("wspawn", t) :
                 core_calls[n].arg1 = t.arg1 /\ core_calls[n].arg2 = t.arg2
            /\ \A n \in C16_Calls("barrier", t) :
                 /\ core_calls[n].arg1 = t.arg1 /\ core_calls[n].arg2 = t.arg2
                 /\ core_calls[n].wid = t.wid
            /\ Cardinality(C16_Pushes(t)) = 1
            /\ \A n \in C16_Pushes(t) :
                 sfu_pushed[n].to = <<"out", iw>> /\ sfu_pushed[n].delay = 4
  /\ \A n \in 1 .. Len(core_calls) :
       core_calls[n].fn \in {"wspawn", "barrier"} =>
         \E k \in 1 .. Len(popped) :
           /\ popped[k].trace.uuid = core_calls[n].by
           /\ popped[k].trace.eop
           /\ popped[k].trace.sfu_type =
                (IF core_calls[n].fn = "wspawn" THEN "WSPAWN" ELSE "BAR")

\* one tick consumed a WSPAWN with eop and arguments (1, 2), calling wspawn
\* for it, and a BAR without eop, calling nothing for it
C16_Witness ==
  /\ \E k \in 1 .. Len(popped) :
       /\ popped[k].trace.sfu_type = "WSPAWN" /\ popped[k].trace.eop
       /\ popped[k].trace.arg1 = 1 /\ popped[k].trace.arg2 = 2
       /\ C16_Calls("wspawn", popped[k].trace) # {}
  /\ \E k \in 1 .. Len(popped) :
       /\ popped[k].trace.sfu_type = "BAR" /\ ~popped[k].trace.eop
       /\ C16_Calls("barrier", popped[k].trace) = {}
       /\ C16_Pushes(popped[k].trace) # {}

----------------------------------------------------------------------------
\* Claims about the LSU issue loop

\* the unit as LsuUnit::tick finds it
C18_Start ==
  [Inputs |-> lsu_Inputs,
   Outputs |-> [iw \in Lanes |-> Left(lsu_Outputs[iw])],
   states |-> states, pending_loads |-> pending_loads, perf_stats |-> perf_stats,
   ReqIn |-> [b \in Banks |-> Left(lsu_ReqIn[b])],
   RspIn |-> lsu_RspIn, wait_for |-> wait_for, log |-> EmptyLog, fatal |-> FALSE]

\* the unit when the issue loop of the tick reaches lane iw
RECURSIVE C18_At(_)
C18_At(iw) == IF iw = 0 THEN LsuRsps(C18_Start, 0) ELSE LsuLane(C18_At(iw - 1), iw - 1)

\* entries of a sequence of log records that are about lane iw
C18_Of(log, iw) == {k \in 1 .. Len(log) : log[k].iw = iw}

\* the uuids queued in a port, in order
C18_Uuids(port) == [k \in 1 .. Len(port) |-> port[k].pkt.uuid]

\* a LOAD is at the head of lane iw of a bank that is not fence-locked when
\* the issue loop reaches the lane
C18_LoadAtHead(iw) ==
  /\ ~C18_At(iw).fatal
  /\ ~SimPort_empty(C18_At(iw).Inputs[iw])
  /\ SimPort_front(C18_At(iw).Inputs[iw]).lsu_type = "LOAD"
  /\ ~C18_At(iw).states[iw % NUM_LSU_BLOCKS].fence_lock

\* the pending table of lane iw's bank has no free slot at that point
C18_TableFull(iw) ==
  C18_At(iw).states[iw % NUM_LSU_BLOCKS].pending_rd_reqs.size_ = LSUQ_SIZE

\* the lane's step changes nothing in the unit
C18_Frame(iw) ==
  LET s == C18_At(iw)
      n == LsuLane(s, iw)
  IN /\ n.Outputs = s.Outputs
     /\ n.ReqIn = s.ReqIn
     /\ n.states = s.states
     /\ n.pending_loads = s.pending_loads
     /\ n.perf_stats = s.perf_stats
     /\ n.RspIn = s.RspIn
     /\ [i \in Lanes |-> C18_Uuids(n.Inputs[i])] = [i \in Lanes |-> C18_Uuids(s.Inputs[i])]

\* C18: a LOAD at the head of a lane whose bank is not fence-locked and has a
\* full pending table is not popped in that tick: no request, no slot, no
\* push to an output by the lane, pending_loads and the loads/stores counters
\* as they were, the same trace at the head in the next tick; it is issued in
\* the first tick in which the table is not full.
C18_LoadStall ==
  [][ (LsuUnit_tick /\ ~fatal') =>
        \A iw \in Lanes :
          C18_LoadAtHead(iw) =>
            \E t \in {SimPort_front(C18_At(iw).Inputs[iw])} :
              IF C18_TableFull(iw)
              THEN /\ C18_Frame(iw)
                   /\ C18_Of(lsu_log'.popped, iw) = {}
                   /\ C18_Of(lsu_log'.reqs, iw) = {}
                   /\ \A k \in 1 .. Len(lsu_log'.allocs) :
                        lsu_log'.allocs[k].trace.uuid # t.uuid
                   /\ \A k \in C18_Of(lsu_log'.pushed, iw) : lsu_log'.pushed[k].from = "rsp"
                   /\ InPorts(lsu_Outputs', t.uuid) = 0
                   /\ InPorts(lsu_ReqIn', t.uuid) = 0
                   /\ lsu_Inputs'[iw] # <<>>
                   /\ SimPort_front(lsu_Inputs'[iw]).uuid = t.uuid
                   /\ lsu_Inputs'[iw][1].delay = 0
              ELSE /\ \E k \in C18_Of(lsu_log'.popped, iw) :
                        lsu_log'.popped[k].trace.uuid = t.uuid
                   /\ Cardinality({k \in C18_Of(lsu_log'.reqs, iw) :
                                     lsu_log'.reqs[k].req.uuid = t.uuid}) = 1
                   /\ InPorts(lsu_Inputs', t.uuid) = 0
                   /\ InPending(t.uuid)' = 1 ]_vars

\* a tick stalled a LOAD on a full table and did nothing else, with the load
\* still at the head of its lane
C18_Witness ==
  /\ ~fatal
  /\ \E k \in 1 .. Len(lsu_log.stalled) :
       /\ lsu_log.stalled[k].why = "full"
       /\ lsu_Inputs[lsu_log.stalled[k].iw] # <<>>
       /\ SimPort_front(lsu_Inputs[lsu_log.stalled[k].iw]).lsu_type = "LOAD"
  /\ \A b \in Banks : HashTable_full(states[b].pending_rd_reqs) /\ ~states[b].fence_lock
  /\ lsu_log.popped = <<>>

\* a STORE is at the head of lane iw of a bank that is not fence-locked when
\* the issue loop reaches the lane
C19_StoreAtHead(iw) ==
  /\ ~C18_At(iw).fatal
  /\ ~SimPort_empty(C18_At(iw).Inputs[iw])
  /\ SimPort_front(C18_At(iw).Inputs[iw]).lsu_type = "STORE"
  /\ ~LsuFenceLock(C18_At(iw), iw).s.states[iw % NUM_LSU_BLOCKS].fence_lock

\* the lanes of the partial issue of trace t that are active
C19_Active(t) == {i \in 0 .. (NUM_LSU_LANES - 1) : (t.pid * NUM_LSU_LANES + i) \in t.tmask}

\* C19: a STORE at the head of lane iw of a bank that is not fence-locked is
\* consumed in that tick, with the table full as well: one request with
\* write = true and tag 0, no slot, pending_loads as it was, the stores
\* counter raised by the number of active lanes, the trace pushed to output
\* lane iw with delay 1.
C19_StoreIssue ==
  [][ (LsuUnit_tick /\ ~fatal') =>
        \A iw \in Lanes :
          C19_StoreAtHead(iw) =>
            \E t \in {SimPort_front(C18_At(iw).Inputs[iw])} :
              \E s \in {C18_At(iw)} : \E n \in {LsuLane(C18_At(iw), iw)} :
                /\ ~n.fatal
                /\ [b \in Banks |-> n.states[b].pending_rd_reqs] =
                     [b \in Banks |-> s.states[b].pending_rd_reqs]
                /\ n.pending_loads = s.pending_loads
                /\ n.perf_stats.loads = s.perf_stats.loads
                /\ n.perf_stats.stores = s.perf_stats.stores + Cardinality(C19_Active(t))
                /\ Cardinality({k \in C18_Of(lsu_log'.popped, iw) :
                                  lsu_log'.popped[k].trace.uuid = t.uuid}) = 1
                /\ Cardinality(C18_Of(lsu_log'.reqs, iw)) = 1
                /\ \A k \in C18_Of(lsu_log'.reqs, iw) :
                     /\ lsu_log'.reqs[k].req.write
                     /\ lsu_log'.reqs[k].req.tag = 0
                     /\ lsu_log'.reqs[k].req.uuid = t.uuid
                     /\ lsu_log'.reqs[k].req.mask = C19_Active(t)
                     /\ lsu_log'.reqs[k].b = iw % NUM_LSU_BLOCKS
                /\ \A k \in 1 .. Len(lsu_log'.allocs) :
                     lsu_log'.allocs[k].trace.uuid # t.uuid
                /\ Cardinality({k \in 1 .. Len(lsu_log'.pushed) :
                                  lsu_log'.pushed[k].trace.uuid = t.uuid}) = 1
                /\ \A k \in 1 .. Len(lsu_log'.pushed) :
                     lsu_log'.pushed[k].trace.uuid = t.uuid =>
                       /\ lsu_log'.pushed[k].iw = iw
                       /\ lsu_log'.pushed[k].delay = 1
                /\ InPorts(lsu_Inputs', t.uuid) = 0
                /\ InPending(t.uuid)' = 0
                /\ \E k \in 1 .. Len(lsu_Outputs'[iw]) :
                     /\ lsu_Outputs'[iw][k].pkt.uuid = t.uuid
                     /\ lsu_Outputs'[iw][k].delay = 0 ]_vars

\* a tick consumed a STORE while the pending table of every bank was full
C19_Witness ==
  /\ ~fatal
  /\ \E k \in 1 .. Len(lsu_log.popped) :
       /\ lsu_log.popped[k].trace.lsu_type = "STORE"
       /\ InPorts(lsu_Outputs, lsu_log.popped[k].trace.uuid) = 1
  /\ lsu_log.released = <<>>
  /\ lsu_log.allocs = <<>>
  /\ \A b \in Banks : HashTable_full(states[b].pending_rd_reqs)

\* the coprocessor kinds by sub-op
C20_Kind == [RASTER |-> "raster", TEX |-> "tex", OM |-> "om"]

\* the places a trace is on a coprocessor port
C20_InCop(u) == InPorts(cop_Input, u) + InPorts(cop_Output, u)

\* C20: a RASTER / TEX / OM trace consumed from an input lane is pushed with
\* delay 2 to the Input port of the unit its idx selects and to no SFU output
\* in that tick; it comes to an SFU output only by the drain of a later tick.
\* A TMC, SPLIT, JOIN, PRED, CSRRW, CSRRS, CSRRC, WSPAWN or BAR trace is
\* pushed to output lane iw with delay 4 and to no coprocessor.
C20_SfuRouting ==
  /\ \A k \in 1 .. Len(popped) :
       LET t == popped[k].trace
           iw == popped[k].iw
       IN /\ Cardinality(C16_Pushes(t)) = 1
          /\ \A n \in C16_Pushes(t) :
               IF t.sfu_type \in DOMAIN C20_Kind
               THEN /\ sfu_pushed[n].to = <<C20_Kind[t.sfu_type], t.idx>>
                    /\ sfu_pushed[n].delay = 2
                    /\ InPorts(sfu_Outputs, t.uuid) = 0
                    /\ \E e \in 1 .. Len(cop_Input[<<C20_Kind[t.sfu_type], t.idx>>]) :
                         cop_Input[<<C20_Kind[t.sfu_type], t.idx>>][e] =
                           [pkt |-> t, delay |-> 1]
                    /\ C20_InCop(t.uuid) = 1
               ELSE /\ t.sfu_type \in {"TMC", "SPLIT", "JOIN", "PRED", "CSRRW", "CSRRS",
                                       "CSRRC", "WSPAWN", "BAR"}
                    /\ sfu_pushed[n].to = <<"out", iw>>
                    /\ sfu_pushed[n].delay = 4
                    /\ C20_InCop(t.uuid) = 0
                    /\ \E e \in 1 .. Len(sfu_Outputs[iw]) :
                         sfu_Outputs[iw][e] = [pkt |-> t, delay |-> 3]
  /\ \A n \in 1 .. Len(sfu_pushed) :
       (sfu_pushed[n].trace.sfu_type \in DOMAIN C20_Kind /\ sfu_pushed[n].to[1] = "out") =>
          /\ sfu_pushed[n].delay = 1
          /\ \A k \in 1 .. Len(popped) : popped[k].trace.uuid # sfu_pushed[n].trace.uuid
  /\ \A iw \in Lanes : \A t \in PortPkts(sfu_Outputs[iw]) :
       t.sfu_type \in DOMAIN C20_Kind =>
          C20_InCop(t.uuid) = 0 /\ InPorts(sfu_Inputs, t.uuid) = 0

\* one tick sent a RASTER trace to the second raster unit and a TMC trace to
\* its output lane
C20_Witness ==
  /\ \E k \in 1 .. Len(popped) :
       /\ popped[k].trace.sfu_type = "RASTER"
       /\ popped[k].trace.idx = 1
       /\ InPorts(cop_Input, popped[k].trace.uuid) = 1
  /\ \E k \in 1 .. Len(popped) :
       /\ popped[k].trace.sfu_type = "TMC"
       /\ InPorts(sfu_Outputs, popped[k].trace.uuid) = 1

\* the SFU sub-ops with an arm in the switch of SfuUnit::tick
C21_Armed == {"WSPAWN", "TMC", "SPLIT", "JOIN", "PRED", "CSRRW", "CSRRS", "CSRRC",
              "BAR", "RASTER", "OM", "TEX"}

\* the input lanes whose visible head has a sub-op without an arm
C21_Unknown ==
  {iw \in Lanes : /\ ~SimPort_empty(sfu_Inputs[iw])
                  /\ SimPort_front(sfu_Inputs[iw]).sfu_type \notin C21_Armed}

\* trace t is on no output and no coprocessor port, and the latest completed
\* tick popped it not, pushed it not and made no callback for it
C21_Untouched(t) ==
  /\ InPorts(sfu_Outputs, t.uuid) = 0
  /\ C20_InCop(t.uuid) = 0
  /\ \A k \in 1 .. Len(popped) : popped[k].trace.uuid # t.uuid
  /\ \A k \in 1 .. Len(sfu_pushed) : sfu_pushed[k].trace.uuid # t.uuid
  /\ C16_Calls("wspawn", t) = {} /\ C16_Calls("barrier", t) = {}

\* C21: an SFU trace whose sub-op has no dispatch arm (CMOV) makes the tick
\* that reads it abort, before the trace is popped, with no push of it to an
\* output or a coprocessor port and no callback for it.
C21_UnknownFatal ==
  /\ [][ SfuUnit_tick =>
           /\ fatal' <=> C21_Unknown # {}
           /\ \A iw \in C21_Unknown :
                /\ sfu_Inputs'[iw] = sfu_Inputs[iw]
                /\ C21_Untouched(SimPort_front(sfu_Inputs[iw]))' ]_vars
  /\ [](fatal => /\ C21_Unknown # {}
                 /\ \A iw \in C21_Unknown : C21_Untouched(SimPort_front(sfu_Inputs[iw])))
  /\ [](\A iw \in Lanes : \A t \in PortPkts(sfu_Outputs[iw]) : t.sfu_type \in C21_Armed)
  /\ [](\A u \in CopUnits : \A t \in PortPkts(cop_Input[u]) \cup PortPkts(cop_Output[u]) :
          t.sfu_type \in C21_Armed)

\* the unit aborted on a CMOV that is still the head of lane 1, behind a lane
\* 0 whose head the aborted tick would have taken
C21_Witness ==
  /\ fatal
  /\ ~SimPort_empty(sfu_Inputs[1])
  /\ SimPort_front(sfu_Inputs[1]).sfu_type = "CMOV"
  /\ SimPort_front(sfu_Inputs[1]).eop
  /\ SimPort_front(sfu_Inputs[1]).fetch_stall
  /\ ~SimPort_empty(sfu_Inputs[0])
  /\ SimPort_front(sfu_Inputs[0]).sfu_type = "TMC"

----------------------------------------------------------------------------
\* Claims about the Priority policy and the coverage of the scan

\* the inputs of output o's group, for a group size R and I inputs
C22_Group(o, R, I) == {j \in 0 .. (I - 1) : o * R <= j /\ j < (o + 1) * R}

\* what a Priority arbiter grants on output o: the lowest non-empty input of
\* the group, nothing if there is none
C22_Lowest(ports, G) ==
  LET ne == {j \in G : ~SimPort_empty(ports[j])}
  IN IF ne = {} THEN {} ELSE {CHOOSE j \in ne : \A k \in ne : j <= k}

\* a tick of a Priority Mux grants as C22_Lowest says and forwards one item
\* per grant
C22_MuxStep ==
  (Mux_tick /\ mux.type_ = "Priority") =>
     \A o \in DOMAIN mux.Outputs :
       /\ mux'.grant[o] = C22_Lowest(mux.Inputs, C22_Group(o, mux.num_reqs_, mux.I))
       /\ Len(mux'.Outputs[o]) = Len(Left(mux.Outputs[o])) + Cardinality(mux'.grant[o])
       /\ \A j \in mux'.grant[o] : Len(mux'.Inputs[j]) = Len(mux.Inputs[j]) - 1

\* C22: under policy Priority every cursor is 0 in every reachable state,
\* every tick grants on each output the lowest-indexed non-empty input of its
\* group, and each output forwards at most one item per tick.
C22_Priority ==
  /\ [](mux.type_ = "Priority" => \A o \in DOMAIN mux.cursors_ : mux.cursors_[o] = 0)
  /\ [][C22_MuxStep]_vars

\* the same for the instances whose group size is a power of two
C22_PowerOfTwo ==
  /\ [](mux.type_ = "Priority" => \A o \in DOMAIN mux.cursors_ : mux.cursors_[o] = 0)
  /\ [][mux.num_reqs_ \in {1, 2, 4} => C22_MuxStep]_vars

\* the same for the Switch, whose group size is 2^lg_num_reqs_
C22_SwitchPriority ==
  /\ [](sw.type_ = "Priority" => \A o \in DOMAIN sw.cursors_ : sw.cursors_[o] = 0)
  /\ [][ (Switch_tick /\ sw.type_ = "Priority" /\ ~fatal') =>
           \A o \in DOMAIN sw.ReqOut :
             /\ sw'.grant[o] =
                  C22_Lowest(sw.ReqIn, C22_Group(o, 2 ^ sw.lg_num_reqs_, sw.I))
             /\ Len(sw'.ReqOut[o]) = Len(sw.ReqOut[o]) + Cardinality(sw'.grant[o]) ]_vars

----------------------------------------------------------------------------
\* Claims about get_addr_type

\* the classification by the ranges, on the numbers themselves: a is in
\* [base, base + 2^n) iff a >= base and a - base has no bit at or above n
C23_Reference(cfg, a) ==
  IF ~Lt64(a, cfg.IO_BASE_ADDR) /\ Lt64(a, cfg.IO_END_ADDR) THEN "IO"
  ELSE IF /\ cfg.LMEM_ENABLED
          /\ ~Lt64(a, cfg.LMEM_BASE_ADDR)
          /\ \A i \in Sub64(a, cfg.LMEM_BASE_ADDR) : i < cfg.LMEM_LOG_SIZE
  THEN "Shared"
  ELSE "Global"

\* C23: for every 64-bit address, get_addr_type gives IO inside the IO
\* window, otherwise Shared inside an enabled local-memory window of
\* 2^LMEM_LOG_SIZE bytes, otherwise Global, for every LMEM_LOG_SIZE.
C23_AddrClassification ==
  classified.type # "none" =>
    classified.type = C23_Reference(classified.cfg, classified.addr)

\* the same for the windows whose size fits an int
C23_IntSizes ==
  (classified.type # "none" /\ classified.cfg.LMEM_LOG_SIZE < IntBits - 1) =>
    classified.type = C23_Reference(classified.cfg, classified.addr)

\* an address inside both windows was classified IO, with a window size that
\* fits an int
C23_Overlap ==
  /\ classified.type = "IO"
  /\ classified.cfg.LMEM_ENABLED
  /\ classified.cfg.LMEM_LOG_SIZE = 14
  /\ classified.addr = classified.cfg.LMEM_BASE_ADDR

----------------------------------------------------------------------------
\* Claims about the progress of the LSU

\* trace u was pushed to an output lane (and maybe consumed since)
C24_Out(u) == InPorts(lsu_Outputs, u) = 1 \/ u \in retired

\* a pending slot holds a load with no lane to wait for
C24_EmptySlot ==
  \E b \in Banks : \E i \in C13_Allocated(b) :
    states[b].pending_rd_reqs.entries[i].second.mask = {}

\* C24: with the unit ticked forever and the memory side answering every
\* load request in full, every LOAD, STORE and FENCE placed on an input lane
\* is eventually pushed to an output lane, once, for every tmask.
C24_Progress ==
  /\ \A u \in 1 .. MaxLiveTraces : (InPorts(lsu_Inputs, u) = 1) ~> C24_Out(u)
  /\ [](\A u \in 1 .. MaxLiveTraces : InPorts(lsu_Outputs, u) <= 1)

\* every trace is pushed to an output lane unless a load without active
\* lanes took a pending slot
C24_ActiveLoads ==
  /\ \A u \in 1 .. MaxLiveTraces :
       (InPorts(lsu_Inputs, u) = 1) ~> (C24_Out(u) \/ C24_EmptySlot)
  /\ [](\A u \in 1 .. MaxLiveTraces : InPorts(lsu_Outputs, u) <= 1)

\* the pushes of the tick that just ran, by the part of the tick that made them
C25_Pushes(from) ==
  {lsu_log'.pushed[k] : k \in {n \in 1 .. Len(lsu_log'.pushed) :
                                 lsu_log'.pushed[n].from = from}}

\* every trace waits on the input lane of its warp, so the lane a trace is
\* consumed from is wid mod ISSUE_WIDTH
C25_LaneOfWarp ==
  \A iw \in Lanes : \A k \in 1 .. Len(lsu_Inputs[iw]) :
    lsu_Inputs[iw][k].pkt.wid % ISSUE_WIDTH = iw

\* C25: fence lane preservation.  A FENCE consumed from input lane iw is
\* pushed to output lane iw: every push the fence-lock release makes goes to
\* the lane of the fence's warp.
C25_FenceLane ==
  [][LsuUnit_tick /\ ~fatal' =>
       \A p \in C25_Pushes("fence") : p.iw = p.trace.wid % ISSUE_WIDTH]_vars

\* the pushes of stores at issue and of loads at their last response do go to
\* the lane the trace was consumed from
C25_OtherPushes ==
  [][LsuUnit_tick /\ ~fatal' =>
       \A p \in C25_Pushes("store") \cup C25_Pushes("rsp") :
         p.iw = p.trace.wid % ISSUE_WIDTH]_vars

\* a latched fence is neither overwritten nor dropped: while the lock is set
\* the latch changes only in a tick that pushed the latched trace
C25_LatchKept ==
  [][LsuUnit_tick /\ ~fatal' =>
       \A b \in Banks :
         states[b].fence_lock /\ states'[b].fence_trace # states[b].fence_trace
           => \E p \in C25_Pushes("fence") : p.trace = states[b].fence_trace]_vars

\* a fence left the unit on a lane other than its own
C25_Crossed ==
  \E iw \in Lanes : \E k \in 1 .. Len(lsu_Outputs[iw]) :
    /\ lsu_Outputs[iw][k].pkt.lsu_type = "FENCE"
    /\ lsu_Outputs[iw][k].pkt.wid % ISSUE_WIDTH # iw

\* input j of the Mux holds an item
C26_Waiting(j) == j \in DOMAIN mux.Inputs /\ ~SimPort_empty(mux.Inputs[j])

\* the last tick forwarded an item of input j
C26_Granted(j) == \E o \in DOMAIN mux.grant : j \in mux.grant[o]

\* C26: no unserved input.  Under RoundRobin an input of a Mux that holds an
\* item is eventually granted, whatever num_inputs and num_outputs are (the
\* instances have at most four inputs).
C26_Served ==
  \A j \in 0 .. 3 :
    (mux.type_ = "RoundRobin" /\ C26_Waiting(j)) ~> C26_Granted(j)

\* an input of a RoundRobin Mux holds an item that no scan can reach
C26_Starved ==
  /\ mux.type_ = "RoundRobin"
  /\ \E j \in DOMAIN mux.Inputs :
       /\ Len(mux.Inputs[j]) = MaxMuxQueue
       /\ \A k \in DOMAIN mux.Inputs : k # j => SimPort_empty(mux.Inputs[k])
       /\ \A o \in DOMAIN mux.grant : mux.grant[o] = {}

\* the free slots of a pending table
C27_Free(t) == {i \in DOMAIN t.entries : ~t.entries[i].first}

\* the loads of bank b that are outstanding, each with the tag it carries:
\* requests on their way to the memory side, requests the memory side still
\* owes packets for, and packets on their way back
C27_Outstanding(b) ==
  {[uuid |-> q.uuid, tag |-> q.tag] : q \in {r \in PortPkts(lsu_ReqIn[b]) : ~r.write}}
  \cup {[uuid |-> o.req.uuid, tag |-> o.req.tag] : o \in mem[b]}
  \cup {[uuid |-> p.uuid, tag |-> p.tag] : p \in PortPkts(lsu_RspIn[b])}

\* the outstanding loads of a bank carry pairwise distinct tags, and the slot
\* a tag names holds that load
C27_Distinct ==
  \A b \in Banks : \A x \in C27_Outstanding(b) :
    /\ \A y \in C27_Outstanding(b) : x.tag = y.tag => x.uuid = y.uuid
    /\ HashTable_contains(states[b].pending_rd_reqs, x.tag)
    /\ HashTable_at(states[b].pending_rd_reqs, x.tag).trace.uuid = x.uuid

\* every slot a tick allocates was the lowest free slot of the bank when the
\* issue loop reached the load's lane, and the load's request carries it
C27_LowestFree ==
  \A k \in 1 .. Len(lsu_log'.allocs) :
    LET a  == lsu_log'.allocs[k]
        iw == a.trace.wid % ISSUE_WIDTH
        t  == C18_At(iw).states[a.b].pending_rd_reqs
    IN /\ a.tag \in C27_Free(t)
       /\ \A i \in C27_Free(t) : a.tag <= i
       /\ \E r \in 1 .. Len(lsu_log'.reqs) :
            /\ lsu_log'.reqs[r].req.uuid = a.trace.uuid
            /\ lsu_log'.reqs[r].req.tag = a.tag
            /\ ~lsu_log'.reqs[r].req.write
            /\ lsu_log'.reqs[r].b = a.b

\* C27: tag uniqueness.  The tag of a load's request is the lowest free slot
\* of its bank at issue time, so a tag is taken again only after its slot was
\* released, and at every instant the outstanding loads of a bank carry
\* pairwise distinct tags, each naming the slot that holds the load.
C27_TagUniqueness ==
  /\ [](C27_Distinct)
  /\ [][LsuUnit_tick /\ ~fatal' => C27_LowestFree]_vars

\* slot 0 was released and taken again by the third load while the second
\* load is still outstanding in slot 1
C27_Witness ==
  \E b \in Banks :
    /\ HashTable_contains(states[b].pending_rd_reqs, 0)
    /\ HashTable_contains(states[b].pending_rd_reqs, 1)
    /\ HashTable_at(states[b].pending_rd_reqs, 0).trace.uuid = 3
    /\ HashTable_at(states[b].pending_rd_reqs, 1).trace.uuid = 2
    /\ Cardinality({x.tag : x \in C27_Outstanding(b)}) = 2

\* C28: assertion validity in the LSU.  The memory side answers only issued
\* loads, with packets whose cumulative mask is the request mask, and no
\* assertion reachable from LsuUnit::tick fires: the unit never aborts.
C28_NoAbort == ~fatal

\* the table calls of a tick are made as their assertions require: the
\* response at the front of a bank names an allocated slot (at, release), and
\* a slot is allocated only from a table that is not full (allocate)
C28_TableCalls ==
  [][LsuUnit_tick =>
       /\ \A b \in Banks :
            ~SimPort_empty(lsu_RspIn[b]) =>
              HashTable_contains(states[b].pending_rd_reqs,
                                 SimPort_front(lsu_RspIn[b]).tag)
       /\ ~fatal' =>
            \A k \in 1 .. Len(lsu_log'.allocs) :
              HashTable_size(C18_At(lsu_log'.allocs[k].trace.wid % ISSUE_WIDTH)
                               .states[lsu_log'.allocs[k].b].pending_rd_reqs)
                < LSUQ_SIZE]_vars

\* the tick aborts only on the response to a load that was allocated with an
\* empty mask
C28_AbortCause ==
  [][LsuUnit_tick /\ fatal' =>
       \E b \in Banks :
         /\ ~SimPort_empty(lsu_RspIn[b])
         /\ HashTable_contains(states[b].pending_rd_reqs, SimPort_front(lsu_RspIn[b]).tag)
         /\ HashTable_at(states[b].pending_rd_reqs,
                         SimPort_front(lsu_RspIn[b]).tag).mask = {}
         /\ ReqMask(HashTable_at(states[b].pending_rd_reqs,
                                 SimPort_front(lsu_RspIn[b]).tag).trace) = {}]_vars


====
